---- MODULE Spec2Model ----
(***************************************************************************)
(* Predictive Tap-Hold (PTH): the event dispatcher                         *)
(* process_record_predictive_tap_hold, the housekeeping tick and the       *)
(* helpers they call, modelled as functions of one state record.  The      *)
(* record holds the module's static variables under their source names,    *)
(* and, in the fields timer/layer_state/source_layer/registered/out, the   *)
(* part of the host firmware the module talks to (the millisecond timer,   *)
(* the layer state and the HID sink).                                      *)
(***************************************************************************)
EXTENDS Integers, Sequences, FiniteSets, TLC

\* ------------------------------------------------------------------ bounds
\* Key events (presses and releases) a behaviour takes after its prefix.
MaxKeyEvents == 4
\* Housekeeping ticks a behaviour takes after its prefix.
MaxTicks == 2
\* Nested process_record calls the stack holds before it overflows.
MaxNest == 2
\* timer_read() when keyboard_post_init_predictive_tap_hold runs: close to the
\* wrap of the 16-bit timer, so that every tick wraps it.
StartTime == 65500

\* ------------------------------------------------------- program constants
PTH_IDLE == 0
PTH_PRESSED == 1
PTH_SECOND_PRESSED == 2
PTH_DECIDED_TAP == 3
PTH_DECIDED_HOLD == 4

PTH_ATOM_LEFT == 0
PTH_ATOM_RIGHT == 1
PTH_ATOM_OPPOSITE == 2
PTH_ATOM_SAME == 3

RELEASE_AS_TAP_POSITIONS_SIZE == 8
RELEASE_RECORD_SIZE == 8
MS_MAX_DUR_FOR_TIMERS == 4096
PTH_MS_MIN_OVERLAP == 39
PTH_MS_MAX_OVERLAP == 232
\* 0b1011100010101001, the look-up table of is_same_side_as_pth
truth_table == 47273
\* the default of pth_get_timeout_for_forcing_choice
DefaultTimeout == 700
\* the bound of the default pth_predict_fast_streak_tap
FastStreakMs == 125

AFTER_SECOND == 0
BEFORE_SECOND == 1

KC_NO == "KC_NO"
KC_TRNS == "KC_TRNS"
EMPTY_KEYPOS == "EMPTY"
PTH_INSTANT_MOD_TAP_SUPPRESSION_KEY == "KC_F23"

\* ------------------------------------------------------- 16-bit arithmetic
U16(x) == x % 65536
U8(x) == x % 256
\* TIMER_DIFF_16(a, b): the modular difference of two uint16_t times
TIMER_DIFF_16(a, b) == (a - b + 65536) % 65536
\* a uint16_t value stored in an int16_t variable
ToInt16(x) == IF x >= 32768 THEN x - 65536 ELSE x
MIN(x, y) == IF x < y THEN x ELSE y
MAX(x, y) == IF x > y THEN x ELSE y

\* bit i of the 8-bit (or 16-bit) mask m
Bit(m, i) == (m \div (2 ^ i)) % 2
set_bit(bitmask, index) == IF Bit(bitmask, index) = 1 THEN bitmask ELSE bitmask + 2 ^ index
clear_bit(bitmask, index) == IF Bit(bitmask, index) = 1 THEN bitmask - 2 ^ index ELSE bitmask
change_bit(bitmask, index, is_set) ==
    IF is_set THEN set_bit(bitmask, index) ELSE clear_bit(bitmask, index)
\* __builtin_ctz over an 8-bit mask that is not 0: the index of the lowest set bit
Ctz8(m) == CHOOSE i \in 0..7 : Bit(m, i) = 1 /\ \A j \in 0..(i - 1) : Bit(m, j) = 0
\* ~x stored in a uint8_t
Not8(m) == 255 - m

\* ---------------------------------------------------------------- keyboard
\* The keyboard of the model: two mod-/layer-taps, a modifier and a letter,
\* and two families of keys used by the capacity scenarios.
Fillers == <<"F1", "F2", "F3", "F4", "F5", "F6", "F7", "F8", "F9">>
TapHolds == <<"H1", "H2", "H3", "H4", "H5", "H6", "H7", "H8", "H9">>
FillerCodes == <<"KC_F1", "KC_F2", "KC_F3", "KC_F4", "KC_F5", "KC_F6", "KC_F7", "KC_F8", "KC_F9">>
TapHoldCodes == <<"MT_H1", "MT_H2", "MT_H3", "MT_H4", "MT_H5", "MT_H6", "MT_H7", "MT_H8", "MT_H9">>
TapHoldTaps == <<"KC_H1", "KC_H2", "KC_H3", "KC_H4", "KC_H5", "KC_H6", "KC_H7", "KC_H8", "KC_H9">>
SeqSet(q) == {q[i] : i \in 1..Len(q)}
IndexOf(q, x) == CHOOSE i \in 1..Len(q) : q[i] = x
FillerSet == SeqSet(Fillers)
TapHoldSet == SeqSet(TapHolds)
CoreKeys == {"K", "L", "S", "X"}
\* keys the host handles itself: T is a mod-tap with a tapping term of its
\* own, D a tap dance
GuardKeys == {"T", "D"}
Positions == CoreKeys \cup FillerSet \cup TapHoldSet \cup GuardKeys
Layers == {0, 1}

\* keycode_at_keymap_location(layer, row, col); a position outside the matrix
\* (EMPTY_KEYPOS) reads as KC_TRNS
Keymap(layer, pos) ==
    IF layer = 0
    THEN CASE pos = "K" -> "MT_LCTL_A"
           [] pos = "L" -> "LT1_C"
           [] pos = "S" -> "KC_LSFT"
           [] pos = "X" -> "KC_X"
           [] pos = "T" -> "MT_LGUI_T"
           [] pos = "D" -> "TD_0"
           [] pos \in FillerSet -> FillerCodes[IndexOf(Fillers, pos)]
           [] pos \in TapHoldSet -> TapHoldCodes[IndexOf(TapHolds, pos)]
           [] OTHER -> KC_TRNS
    ELSE CASE pos = "S" -> KC_NO
           [] pos = "X" -> "KC_1"
           [] OTHER -> KC_TRNS

IS_QK_MOD_TAP(keycode) == keycode \in {"MT_LCTL_A", "MT_LGUI_T"} \cup SeqSet(TapHoldCodes)
IS_QK_TAP_DANCE(keycode) == keycode = "TD_0"
\* get_tapping_term of a keymap with TAPPING_TERM_PER_KEY: 0 (the module's
\* keys) but for T
get_tapping_term(keycode, record) == IF keycode = "MT_LGUI_T" THEN 200 ELSE 0
IS_QK_LAYER_TAP(keycode) == keycode \in {"LT1_C"}
QK_LAYER_TAP_GET_LAYER(keycode) == 1
\* the modifiers of a mod-tap, as the set of the modifier bits
QK_MOD_TAP_GET_MODS(keycode) ==
    CASE keycode = "MT_LCTL_A" -> {"LCTL"}
      [] keycode = "MT_LGUI_T" -> {"LGUI"}
      [] keycode \in SeqSet(TapHoldCodes) -> {"LALT"}
      [] OTHER -> {}
\* the basic keycode a tap-hold keycode sends when tapped
TapKeycode(keycode) ==
    CASE keycode = "MT_LCTL_A" -> "KC_A"
      [] keycode = "MT_LGUI_T" -> "KC_T"
      [] keycode \in SeqSet(TapHoldCodes) -> TapHoldTaps[IndexOf(TapHoldCodes, keycode)]
      [] keycode = "LT1_C" -> "KC_C"
      [] OTHER -> keycode
\* the modifiers a basic keycode is
BasicMods(keycode) == IF keycode = "KC_LSFT" THEN {"LSFT"} ELSE {}

\* pth_is_tap_hold_keycode
pth_is_tap_hold_keycode(keycode) == IS_QK_MOD_TAP(keycode) \/ IS_QK_LAYER_TAP(keycode)

\* PTH_ENCODE_KEY_SIDES(pth_role, other_role)
PTH_ENCODE_KEY_SIDES(pth_role, other_role) == (pth_role % 4) * 4 + (other_role % 4)
PTH_GET_PTH_ATOM_SIDE(encoded_val) == (encoded_val \div 4) % 4
PTH_GET_OTHER_ATOM_SIDE(encoded_val) == encoded_val % 4
PTH_GET_USER_BITS(encoded_val) == (encoded_val \div 16) * 16

\* pth_get_side: the side layout of the model's keyboard.  K, S and the
\* families are on the left, X is on the right; L is on the right as the PTH
\* key and on the left as any other key.
pth_get_side(pos) ==
    CASE pos = "X" -> PTH_ENCODE_KEY_SIDES(PTH_ATOM_RIGHT, PTH_ATOM_RIGHT)
      [] pos = "L" -> PTH_ENCODE_KEY_SIDES(PTH_ATOM_RIGHT, PTH_ATOM_LEFT)
      [] pos \in TapHoldSet -> PTH_ENCODE_KEY_SIDES(PTH_ATOM_RIGHT, PTH_ATOM_RIGHT)
      [] OTHER -> PTH_ENCODE_KEY_SIDES(PTH_ATOM_LEFT, PTH_ATOM_LEFT)

\* ------------------------------------------------------------------- state
VARIABLES
    st,      \* the firmware: the module's statics and the host
    sh,      \* in a paired run: the same keyboard with instant hold disabled
    mode,    \* "single" or "pair"
    down,    \* the keys that are physically down
    keys,    \* the keys the typist touches from here on
    nkeys,   \* key events so far
    nticks,  \* housekeeping ticks so far
    obs,     \* what the typist did, for the properties (see NoObs)
    mlat     \* the Magic Layer Alt-Tab module and its host (see AltTabConstruct)
vars == <<st, sh, mode, down, keys, nkeys, nticks, obs, mlat>>

\* keyrecord_t: event.type, event.key, event.pressed, event.time, tap.count,
\* tap.interrupted
Record(pos, pressed, time) ==
    [type |-> "KEY_EVENT", key |-> pos, pressed |-> pressed, time |-> time,
     count |-> 0, interrupted |-> FALSE]
IS_KEYEVENT(record) == record.type = "KEY_EVENT"
IS_COMBOEVENT(record) == record.type = "COMBO_EVENT"
\* an event that is not a matrix key event: a combo or an encoder step
EventRecord(type, pressed, time) == [Record(EMPTY_KEYPOS, pressed, time) EXCEPT !.type = type]
\* a zero-initialised keyrecord_t (position row 0, col 0)
ZeroRecord == Record("P00", FALSE, 0)
\* {.event = {.key = EMPTY_KEYPOS}}
EmptyRecord == Record(EMPTY_KEYPOS, FALSE, 0)

\* what the weak prediction functions return in the current call
NoPred == [hold |-> FALSE, overlap |-> 0]

\* The build and the weak functions a keymap overrides.
\*   hold_instantly     "default": pth_default_should_hold_instantly; "never": an
\*                      override that returns false
\*   reset_immediately  PTH_RESET_IMMEDIATELY_WHEN_TAP_CHOSEN is defined
\*   fast_streak        "off", "on" (PTH_FAST_STREAK_TAP_ENABLE) or "reset"
\*                      (with PTH_FAST_STREAK_TAP_RESET_IMMEDIATELY)
\*   timeout            what pth_get_timeout_for_forcing_choice returns
\*   forced             "default": the default pth_get_forced_choice_after_timeout;
\*                      "tap": an override that returns PTH_DECIDED_TAP
\*   instead            what pth_get_code_to_be_registered_instead_when_hold_chosen returns
DefaultCfg ==
    [hold_instantly |-> "default", reset_immediately |-> FALSE, fast_streak |-> "off",
     timeout |-> DefaultTimeout, forced |-> "default", instead |-> KC_NO,
     same_side_press |-> "default"]

\* The static initialisers of predictive_tap_hold.c, then
\* keyboard_post_init_predictive_tap_hold at timer value t0.
Construct(cfg, t0) ==
    [cfg |-> cfg,
     pred |-> NoPred,
     pth_status |-> PTH_IDLE,
     pth_prev_status |-> PTH_IDLE,
     pth_keycode |-> KC_NO,
     pth_tap_code_instead_of_hold |-> KC_NO,
     pth_record |-> EmptyRecord,
     pth_press_timer |-> 0,
     pth_press_timer_max_reached |-> FALSE,
     pth_atomic_side |-> 0,
     pth_side_user_bits |-> 0,
     pth_was_held_instantly |-> FALSE,
     second_was_held_instantly |-> FALSE,
     instant_layer_was_active |-> FALSE,
     layer_before_instant_layer_tap |-> 0,
     has_second |-> FALSE,
     second_record |-> EmptyRecord,
     second_keycode |-> KC_NO,
     second_press_timer |-> 0,
     second_press_timer_max_reached |-> FALSE,
     second_is_tap_hold |-> FALSE,
     second_is_same_side_as_pth |-> FALSE,
     second_to_be_released |-> FALSE,
     timeout_for_forcing_choice |-> 0,
     has_chosen_after_timeout_reached |-> FALSE,
     min_overlap_dur_for_hold |-> 0,
     pth_press_to_second_press_dur |-> 0,
     pth_press_to_second_release_dur |-> 0,
     pth_second_dur |-> 0,
     pth_second_press_to_third_press_dur |-> 0,
     pth_prev_prev_press_to_prev_press_dur |-> -1,
     pth_prev_press_to_pth_press_dur |-> -1,
     pth_prev_prev_overlap_dur |-> -1,
     pth_prev_overlap_dur |-> -1,
     key_release_before_pth_to_pth_press_dur |-> 0,
     prev_press_keycode |-> KC_NO,
     cur_press_keycode |-> KC_NO,
     down_count |-> 0,
     overlap_timer |-> 0,
     overlap_timer_max_reached |-> FALSE,
     press_to_press_timer |-> TIMER_DIFF_16(t0, MS_MAX_DUR_FOR_TIMERS),
     press_to_press_timer_max_reached |-> FALSE,
     release_timer |-> TIMER_DIFF_16(t0, MS_MAX_DUR_FOR_TIMERS - 100),
     release_timer_max_reached |-> FALSE,
     prev_press_to_press_dur |-> -1,
     cur_press_to_press_dur |-> -1,
     prev_overlap_dur |-> -1,
     cur_overlap_dur |-> -1,
     release_as_tap_positions |-> [i \in 0..(RELEASE_AS_TAP_POSITIONS_SIZE - 1) |-> "P00"],
     used_release_as_tap_positions_bitmask |-> 0,
     release_records |-> [i \in 0..(RELEASE_RECORD_SIZE - 1) |-> ZeroRecord],
     is_before_second_bitmask |-> 0,
     used_release_records_bitmask |-> 0,
     is_processing_record_due_to_pth |-> FALSE,
     \* the last return value of the dispatcher and of process_release_records
     ret |-> TRUE,
     waited |-> FALSE,
     \* the host: timer_read(), the active layers, the layer each key was
     \* pressed on, the codes, modifiers that are registered, and the trace
     \* of what reached the sink since the last PTH press
     timer |-> t0,
     layer_state |-> {0},
     source_layer |-> [p \in Positions |-> 0],
     registered |-> {},
     out |-> <<>>,
     \* observers: a nested dispatcher call ran past the re-entrancy guard;
     \* the stack overflowed; how each key is registered at the sink (as
     \* "tap", as "hold"; not at all: {}); the sink got a register or an
     \* unregister that has no partner
     nested_ran |-> FALSE,
     crashed |-> FALSE,
     sunk |-> [p \in Positions |-> {}],
     unpaired |-> FALSE]

\* -------------------------------------------------------------------- host
\* layer_switch_get_layer(key): the highest active layer with a keycode there
layer_switch_get_layer(s, pos) ==
    IF 1 \in s.layer_state /\ Keymap(1, pos) # KC_TRNS THEN 1 ELSE 0

\* get_keycode_same_pos_in_layer(record, layer)
get_keycode_same_pos_in_layer(record, layer) == Keymap(layer, record.key)

\* get_mods(): the modifiers that are registered
get_mods(s) == {m \in {"LCTL", "LSFT", "LALT", "LGUI"} : m \in s.registered}

\* one entry of the trace of the sink
Emit(s, e) == [s EXCEPT !.out = Append(@, e)]

\* what the action of keycode kc, taken as how ("tap" or "hold"), registers
ActionCodes(kc, how) ==
    CASE kc \in {KC_NO, KC_TRNS} -> {}
      [] IS_QK_MOD_TAP(kc) /\ how = "hold" -> QK_MOD_TAP_GET_MODS(kc)
      [] IS_QK_LAYER_TAP(kc) /\ how = "hold" -> {}
      [] pth_is_tap_hold_keycode(kc) -> {TapKeycode(kc)}
      [] OTHER -> {kc} \cup BasicMods(kc)

\* the layer the action of keycode kc, taken as how, switches on
ActionLayers(kc, how) ==
    IF IS_QK_LAYER_TAP(kc) /\ how = "hold" THEN {QK_LAYER_TAP_GET_LAYER(kc)} ELSE {}

\* the observer of the sink: the event of record, taken as how, arrives.  It
\* is unpaired if it is a register of a key that is registered that way, a
\* register as tap of a key whose hold is registered, or an unregister of a
\* key that is not registered that way.
SinkSees(s, record, how) ==
    IF record.key \notin Positions
    THEN s
    ELSE [s EXCEPT !.unpaired = @ \/ (IF record.pressed
                                      THEN how \in s.sunk[record.key]
                                               \/ (how = "tap" /\ s.sunk[record.key] # {})
                                      ELSE how \notin s.sunk[record.key]),
                   !.sunk[record.key] = IF record.pressed THEN @ \cup {how} ELSE @ \ {how}]

PerformAction(s, record, kc, how) ==
    SinkSees(IF record.pressed
             THEN [s EXCEPT !.registered = @ \cup ActionCodes(kc, how),
                            !.layer_state = @ \cup ActionLayers(kc, how),
                            !.out = Append(@, [op |-> "reg", pos |-> record.key, how |-> how, kc |-> kc])]
             ELSE [s EXCEPT !.registered = @ \ ActionCodes(kc, how),
                            !.layer_state = @ \ ActionLayers(kc, how),
                            !.out = Append(@, [op |-> "unreg", pos |-> record.key, how |-> how, kc |-> kc])],
             record, how)

\* the keycode of a record: that of the layer the key was pressed on
RecordKeycode(s, pos) ==
    IF pos \in Positions THEN Keymap(s.source_layer[pos], pos) ELSE KC_NO

\* The host's handling of a record that the module let through (process_action):
\* tap.count > 0 selects the tap action of a tap-hold keycode, tap.count = 0
\* its hold action.
process_action(s, record) ==
    PerformAction(s, record, RecordKeycode(s, record.key),
                  IF record.count > 0 THEN "tap" ELSE "hold")

\* register_code16(code) / unregister_code16(code) / tap_code16(code)
register_code16(s, code) ==
    [s EXCEPT !.registered = @ \cup {code},
              !.out = Append(@, [op |-> "reg", pos |-> EMPTY_KEYPOS, how |-> "code", kc |-> code])]
unregister_code16(s, code) ==
    [s EXCEPT !.registered = @ \ {code},
              !.out = Append(@, [op |-> "unreg", pos |-> EMPTY_KEYPOS, how |-> "code", kc |-> code])]
tap_code16(s, code) == unregister_code16(register_code16(s, code), code)

\* send_and_wait(): send_keyboard_report() and wait_ms(TAP_CODE_DELAY); the
\* build of the model has TAP_CODE_DELAY 0, so no time passes
send_and_wait(s) ==
    Emit(s, [op |-> "wait", pos |-> EMPTY_KEYPOS, how |-> "wait", kc |-> KC_NO])

\* ------------------------------------------------------------ key handling
RECURSIVE process_record(_, _, _)

\* the storage a keyrecord_t* points to: <<"pth">>, <<"second">>,
\* <<"slot", i>> (release_records[i]) or <<"local">> (the caller's record)
StoreRecord(s, ref, record) ==
    CASE ref[1] = "pth" -> [s EXCEPT !.pth_record = record]
      [] ref[1] = "second" -> [s EXCEPT !.second_record = record]
      [] ref[1] = "slot" -> [s EXCEPT !.release_records[ref[2]] = record]
      [] OTHER -> s

SetProcessing(s, value) == [s EXCEPT !.is_processing_record_due_to_pth = value]

\* is_processing_record_due_to_pth = true; process_record(record); ... = false;
ProcessFlagged(s, ref, record, depth) ==
    SetProcessing(process_record(SetProcessing(StoreRecord(s, ref, record), TRUE),
                                 record, depth + 1),
                  FALSE)

\* (nothing runs any more once the stack has overflowed)
process_record_with_new_time(s, ref, record, depth) ==
    IF s.crashed
    THEN s
    ELSE ProcessFlagged(s, ref, [record EXCEPT !.time = s.timer], depth)

set_record_to_tap(record) == [record EXCEPT !.interrupted = TRUE, !.count = 1]
set_record_to_hold(record) == [record EXCEPT !.count = 0]

process_register_record(s, ref, record, depth) ==
    process_record_with_new_time(s, ref, [record EXCEPT !.pressed = TRUE], depth)
process_unregister_record(s, ref, record, depth) ==
    process_record_with_new_time(s, ref, [record EXCEPT !.pressed = FALSE], depth)
process_register_record_as_hold(s, ref, record, depth) ==
    process_record_with_new_time(s, ref, [set_record_to_hold(record) EXCEPT !.pressed = TRUE], depth)
process_unregister_record_as_hold(s, ref, record, depth) ==
    process_record_with_new_time(s, ref, [set_record_to_hold(record) EXCEPT !.pressed = FALSE], depth)
process_register_record_as_tap(s, ref, record, depth) ==
    process_record_with_new_time(s, ref, [set_record_to_tap(record) EXCEPT !.pressed = TRUE], depth)
process_unregister_record_as_tap(s, ref, record, depth) ==
    process_record_with_new_time(s, ref, [set_record_to_tap(record) EXCEPT !.pressed = FALSE], depth)

\* register_pth_hold: only called if the PTH was not held instantly
UpdateSecondKeycode(s, keycode) ==
    [s EXCEPT !.second_keycode = keycode,
              !.second_is_tap_hold = pth_is_tap_hold_keycode(keycode)]

\* the second key's keycode is looked up again on the layer the hold activated
UpdateSecondAfterHold(s) ==
    IF s.has_second /\ ~s.second_was_held_instantly /\ IS_QK_LAYER_TAP(s.pth_keycode)
    THEN UpdateSecondKeycode(s, get_keycode_same_pos_in_layer(
                                    s.second_record, QK_LAYER_TAP_GET_LAYER(s.pth_keycode)))
    ELSE s

\* variant: the PTH's own hold action whatever the replacement code
\* (ReplacementCodeOnHold tells it from register_pth_hold)
RegisterNativeHold(s, depth) ==
    UpdateSecondAfterHold(process_register_record_as_hold(s, <<"pth">>, s.pth_record, depth))

register_pth_hold(s, depth) ==
    IF s.pth_tap_code_instead_of_hold = KC_NO
    THEN UpdateSecondAfterHold(
             process_register_record_as_hold(s, <<"pth">>, s.pth_record, depth))
    ELSE register_code16(s, s.pth_tap_code_instead_of_hold)

unregister_pth_hold(s, depth) ==
    IF s.pth_tap_code_instead_of_hold = KC_NO
    THEN process_unregister_record_as_hold(s, <<"pth">>, s.pth_record, depth)
    ELSE unregister_code16(s, s.pth_tap_code_instead_of_hold)

\* ------------------------------------------------------- tap-release set
\* the used slots of release_as_tap_positions that hold pos
TapReleaseSlots(s, pos) ==
    {i \in 0..(RELEASE_AS_TAP_POSITIONS_SIZE - 1) :
        Bit(s.used_release_as_tap_positions_bitmask, i) = 1 /\ s.release_as_tap_positions[i] = pos}

\* the least element of a set of slot numbers
LowestSlot(slots) == CHOOSE x \in slots : \A y \in slots : x <= y

\* remove_pos_from_tap_releases: its return value
remove_pos_found(s, pos) == TapReleaseSlots(s, pos) # {}
\* variant: the slot stays in use (QuiescentWhenAllReleased tells it from
\* remove_pos_from_tap_releases)
RemoveKeepsSlot(s, pos) == s

\* remove_pos_from_tap_releases: its effect (the lowest matching slot is freed)
remove_pos_from_tap_releases(s, pos) ==
    IF TapReleaseSlots(s, pos) = {}
    THEN s
    ELSE [s EXCEPT !.used_release_as_tap_positions_bitmask =
                       clear_bit(@, LowestSlot(TapReleaseSlots(s, pos)))]

add_pos_to_tap_releases(s, pos) ==
    LET Store(lsb_set_index) ==
            [s EXCEPT !.release_as_tap_positions[lsb_set_index] = pos,
                      !.used_release_as_tap_positions_bitmask = set_bit(@, lsb_set_index)]
    IN  IF Not8(s.used_release_as_tap_positions_bitmask) = 0
        THEN s
        ELSE Store(Ctz8(Not8(s.used_release_as_tap_positions_bitmask)))

\* --------------------------------------------------------- release cache
BitAnd8(a, b) ==
    LET RECURSIVE Go(_)
        Go(i) == IF i > 7 THEN 0
                 ELSE (IF Bit(a, i) = 1 /\ Bit(b, i) = 1 THEN 2 ^ i ELSE 0) + Go(i + 1)
    IN  Go(0)

\* variant: every cached release counts as released after the second key
\* (BeforeSecondComesFirst tells it from get_to_be_released_bitmask)
AllAfterSecond(s, release_time) ==
    IF release_time = BEFORE_SECOND THEN 0 ELSE s.used_release_records_bitmask

get_to_be_released_bitmask(s, release_time) ==
    BitAnd8(s.used_release_records_bitmask,
            IF release_time = BEFORE_SECOND
            THEN s.is_before_second_bitmask
            ELSE Not8(s.is_before_second_bitmask))

\* the loop of process_release_records
RECURSIVE ReleaseLoop(_, _, _, _)
\* one round of the loop: the record of the lowest set bit is processed
ReleaseLowest(s, to_be_released_bitmask, lsb_set_index, depth) ==
    ReleaseLoop(process_record_with_new_time(s, <<"slot", lsb_set_index>>,
                                             s.release_records[lsb_set_index], depth),
                clear_bit(to_be_released_bitmask, lsb_set_index), TRUE, depth)

ReleaseLoop(s, to_be_released_bitmask, waited, depth) ==
    IF s.crashed \/ to_be_released_bitmask = 0
    THEN s
    ELSE ReleaseLowest(IF ~waited THEN send_and_wait(s) ELSE s,
                       to_be_released_bitmask, Ctz8(to_be_released_bitmask), depth)

\* process_release_records: the state after it; its return value is in waited
ReleaseMasked(s, to_be_released_bitmask, wait_before_first, depth) ==
    IF to_be_released_bitmask = 0
    THEN [s EXCEPT !.waited = FALSE]
    ELSE [ReleaseLoop([s EXCEPT !.used_release_records_bitmask =
                                    BitAnd8(@, Not8(to_be_released_bitmask))],
                      to_be_released_bitmask, ~wait_before_first, depth)
             EXCEPT !.waited = TRUE]

\* variant: the cached releases are left in the cache
\* (NothingDeferredOutsideDecision tells it from process_release_records)
KeepReleaseRecords(s, release_time, wait_before_first, depth) == s

process_release_records(s, release_time, wait_before_first, depth) ==
    ReleaseMasked(s, get_to_be_released_bitmask(s, release_time), wait_before_first, depth)

process_release_records_and_wait_before_first(s, release_time, depth) ==
    process_release_records(s, release_time, TRUE, depth)

\* variant: a release is processed at once instead of being cached
\* (DeferredReleaseInOrder tells it from add_release_record)
ReleaseAtOnce(s, record, release_time, depth) ==
    process_record_with_new_time(s, <<"local">>, record, depth)

\* variant: the record is stored in the highest free slot (CachedReleasesInOrder
\* tells it from add_release_record)
AddReleaseRecordAtHighest(s, record, release_time, depth) ==
    LET Free == {i \in 0..(RELEASE_RECORD_SIZE - 1) : Bit(s.used_release_records_bitmask, i) = 0}
        Highest == CHOOSE i \in Free : \A j \in Free : j <= i
    IN  IF Free = {}
        THEN [s EXCEPT !.crashed = TRUE]
        ELSE [s EXCEPT !.release_records[Highest] = record,
                       !.is_before_second_bitmask =
                           change_bit(@, Highest, release_time = BEFORE_SECOND),
                       !.used_release_records_bitmask = set_bit(@, Highest)]

\* add_release_record.  With every slot in use the record goes to
\* process_record directly, that is without is_processing_record_due_to_pth:
\* the dispatcher runs again on the same release, in the same status, and
\* comes back here; the recursion ends when the stack overflows.  The code
\* after the call has no return: it would go on to __builtin_ctz(0), which is
\* undefined.
add_release_record(s, record, release_time, depth) ==
    LET Store(lsb_unset_index) ==
            [s EXCEPT !.release_records[lsb_unset_index] = record,
                      !.is_before_second_bitmask =
                          change_bit(@, lsb_unset_index, release_time = BEFORE_SECOND),
                      !.used_release_records_bitmask = set_bit(@, lsb_unset_index)]
    IN  IF Not8(s.used_release_records_bitmask) = 0
        THEN [process_record(s, record, depth + 1) EXCEPT !.crashed = TRUE]
        ELSE Store(Ctz8(Not8(s.used_release_records_bitmask)))

\* ------------------------------------------------------- weak functions
\* variant: the index of the lookup with the two atoms exchanged
\* (SameSideFollowsRules tells it from is_same_side_as_pth)
SameSideExchanged(s, other_atomic_side) ==
    LET index == other_atomic_side * 4 + s.pth_atomic_side
    IN  Bit(truth_table, index) = 1

\* is_same_side_as_pth(other_atomic_side)
is_same_side_as_pth(s, other_atomic_side) ==
    LET index == s.pth_atomic_side * 4 + other_atomic_side
    IN  Bit(truth_table, index) = 1

is_record_same_side_as_pth(s, record) ==
    is_same_side_as_pth(s, PTH_GET_OTHER_ATOM_SIDE(pth_get_side(record.key)))

\* pth_default_should_hold_instantly (the build has no Caps Word)
pth_default_should_hold_instantly(s, keycode) ==
    LET active_mods_or_gui == get_mods(s) \cup {"LGUI", "RGUI"}
    IN  ~(IS_QK_MOD_TAP(keycode) /\ (QK_MOD_TAP_GET_MODS(keycode) \cap active_mods_or_gui) # {})

pth_should_hold_instantly(s, keycode) ==
    IF s.cfg.hold_instantly = "never" THEN FALSE ELSE pth_default_should_hold_instantly(s, keycode)

pth_second_should_hold_instantly(s, keycode) == pth_should_hold_instantly(s, keycode)

\* variant: a same-side press never chooses tap (SameSideRollIsTap tells it
\* from pth_should_choose_tap_when_second_is_same_side_press)
NeverChooseTapOnSameSidePress(s) == FALSE

\* weak; the default is !second_is_tap_hold, a keymap may define its own
pth_should_choose_tap_when_second_is_same_side_press(s) ==
    IF s.cfg.same_side_press = "never" THEN FALSE ELSE ~s.second_is_tap_hold

pth_should_choose_tap_when_second_is_same_side_release(s) == TRUE

pth_get_timeout_for_forcing_choice(s) == s.cfg.timeout

\* variant: a forced choice that is always tap (ForcedChoiceOnTimeout tells it
\* from pth_get_forced_choice_after_timeout)
ForcedChoiceTap(s) == PTH_DECIDED_TAP

pth_get_forced_choice_after_timeout(s) ==
    IF s.cfg.forced = "tap" THEN PTH_DECIDED_TAP
    ELSE IF s.has_second THEN PTH_IDLE ELSE PTH_DECIDED_HOLD

pth_should_neutralize_mods(mods) == (mods \cap {"LCTL", "RCTL", "LSFT", "RSFT"}) = {}

pth_get_code_to_be_registered_instead_when_hold_chosen(s) == s.cfg.instead

\* variant: a same-side policy that never approves (DecidedPressIsClassified
\* tells it from pth_should_register_as_hold_when_same_side)
NeverHoldWhenSameSide(keycode, record) == FALSE

pth_should_register_as_hold_when_same_side(keycode, record) == TRUE

\* the three hold predictions and the overlap prediction: weak functions over
\* decision trees fitted to typing data; the model takes their result as an
\* input of the call (st.pred)
pth_predict_hold_when_third_press(s) == s.pred.hold
pth_predict_hold_when_pth_release_after_second_press(s) == s.pred.hold
pth_predict_hold_when_pth_release_after_second_release(s) == s.pred.hold
pth_predict_min_overlap_for_hold_in_ms(s) == s.pred.overlap

\* pth_is_fast_streak_tap_key: letters, space and some punctuation, unless Ctrl,
\* GUI or left Alt is active
pth_is_fast_streak_tap_key(s, keycode) ==
    /\ (get_mods(s) \cap {"LCTL", "RCTL", "LGUI", "RGUI", "LALT"}) = {}
    /\ TapKeycode(keycode) \in {"KC_A", "KC_C", "KC_X"}

pth_predict_fast_streak_tap(s) ==
    /\ pth_is_fast_streak_tap_key(s, s.pth_keycode)
    /\ pth_is_fast_streak_tap_key(s, s.prev_press_keycode)
    /\ s.pth_prev_status # PTH_DECIDED_HOLD
    /\ s.pth_prev_press_to_pth_press_dur < FastStreakMs

\* variant: neutralise whether or not the key was held instantly
\* (NeutralizeOnlyWrongInstantMods tells it from should_neutralize_mods)
NeutralizeAnyModTap(s, keycode, was_held_instantly) ==
    /\ IS_QK_MOD_TAP(keycode)
    /\ pth_should_neutralize_mods(QK_MOD_TAP_GET_MODS(keycode))

should_neutralize_mods(s, keycode, was_held_instantly) ==
    /\ was_held_instantly
    /\ IS_QK_MOD_TAP(keycode)
    /\ pth_should_neutralize_mods(QK_MOD_TAP_GET_MODS(keycode))

\* ------------------------------------------------------------- decisions
\* variant: a reset that keeps the PTH keycode (OnePthAtATime tells it from
\* reset_pth_state)
ResetKeepingKeycode(s) ==
    [s EXCEPT !.pth_prev_status = s.pth_status, !.pth_status = PTH_IDLE]

\* variant: a reset that leaves the second key's fields and the flags alone
\* (PthReleaseResets tells it from reset_pth_state)
ResetKeepingSecond(s) ==
    [s EXCEPT !.pth_prev_status = s.pth_status,
              !.pth_status = PTH_IDLE,
              !.pth_keycode = KC_NO,
              !.pth_tap_code_instead_of_hold = KC_NO,
              !.pth_record.key = EMPTY_KEYPOS]

reset_pth_state(s) ==
    [s EXCEPT !.pth_prev_status = s.pth_status,
              !.pth_status = PTH_IDLE,
              !.pth_keycode = KC_NO,
              !.pth_tap_code_instead_of_hold = KC_NO,
              !.pth_record.key = EMPTY_KEYPOS,
              !.pth_press_timer_max_reached = FALSE,
              !.pth_was_held_instantly = FALSE,
              !.second_was_held_instantly = FALSE,
              !.instant_layer_was_active = FALSE,
              !.layer_before_instant_layer_tap = 0,
              !.has_second = FALSE,
              !.second_record.key = EMPTY_KEYPOS,
              !.second_keycode = KC_NO,
              !.second_press_timer_max_reached = FALSE,
              !.second_is_tap_hold = FALSE,
              !.second_to_be_released = FALSE,
              !.has_chosen_after_timeout_reached = FALSE,
              !.min_overlap_dur_for_hold = 0]

\* the end of both decisions: if (second_to_be_released) { if (!waited)
\* send_and_wait(); process_unregister_record(&second_record); }
UnregisterSecond(s, depth) ==
    process_unregister_record(s, <<"second">>, s.second_record, depth)

ReleaseSecond(s, depth) ==
    IF s.second_to_be_released
    THEN UnregisterSecond(IF ~s.waited THEN send_and_wait(s) ELSE s, depth)
    ELSE s

\* if (!second_to_be_released) add_pos_to_tap_releases(second_record.event.key);
\* set_record_to_tap(&second_record);
SecondBecomesTap(s) ==
    [(IF ~s.second_to_be_released THEN add_pos_to_tap_releases(s, s.second_record.key) ELSE s)
        EXCEPT !.second_record = set_record_to_tap(@)]

RegisterSecond(s, depth) ==
    process_register_record(s, <<"second">>, s.second_record, depth)

\* make_decision_tap after the PTH's register-as-tap and the BEFORE_SECOND flush
TapSecondPart(s, depth) ==
    IF ~s.has_second
    THEN s
    ELSE ReleaseSecond(
             process_release_records_and_wait_before_first(
                 RegisterSecond(IF s.second_is_tap_hold THEN SecondBecomesTap(s) ELSE s, depth),
                 AFTER_SECOND, depth),
             depth)

NeutralizeMods(s) ==
    IF \/ should_neutralize_mods(s, s.pth_keycode, s.pth_was_held_instantly)
       \/ should_neutralize_mods(s, s.second_keycode, s.second_was_held_instantly)
    THEN tap_code16(s, PTH_INSTANT_MOD_TAP_SUPPRESSION_KEY)
    ELSE s

UnholdPth(s, depth) ==
    process_unregister_record_as_hold(s, <<"pth">>, s.pth_record, depth)

\* variant: the instant hold of the PTH stays registered (LoneTapIsTap tells
\* it from UndoInstantPth)
KeepInstantPth(s, depth) == s

\* if (pth_was_held_instantly): the instant hold of the PTH is taken back
UndoInstantPth(s, depth) ==
    IF s.pth_was_held_instantly
    THEN UnholdPth(IF IS_QK_LAYER_TAP(s.pth_keycode)
                   THEN UpdateSecondKeycode(s, get_keycode_same_pos_in_layer(
                                                   s.second_record,
                                                   s.layer_before_instant_layer_tap))
                   ELSE s,
                   depth)
    ELSE s

\* variant: the instant hold of the second key stays registered
\* (InstantHoldRollback tells it from UndoInstantSecond)
KeepInstantSecond(s, depth) == s

\* if (second_was_held_instantly): the instant hold of the second is taken back
UndoInstantSecond(s, depth) ==
    IF s.second_was_held_instantly
    THEN process_unregister_record_as_hold(s, <<"second">>, s.second_record, depth)
    ELSE s

RegisterPthTap(s, depth) ==
    process_register_record_as_tap(s, <<"pth">>, s.pth_record, depth)

\* variant: the BEFORE_SECOND releases come out before the PTH's
\* register-as-tap (CommitTapOrder tells it from make_decision_tap)
DecideTapReleasesFirst(s, depth) ==
    IF s.pth_status >= PTH_DECIDED_TAP
    THEN s
    ELSE TapSecondPart(
             RegisterPthTap(
                 process_release_records_and_wait_before_first(
                     UndoInstantSecond(
                         UndoInstantPth(
                             NeutralizeMods([s EXCEPT !.pth_status = PTH_DECIDED_TAP]),
                             depth),
                         depth),
                     BEFORE_SECOND, depth),
                 depth),
             depth)

make_decision_tap(s, depth) ==
    IF s.pth_status >= PTH_DECIDED_TAP
    THEN s
    ELSE TapSecondPart(
             process_release_records_and_wait_before_first(
                 RegisterPthTap(
                     UndoInstantSecond(
                         UndoInstantPth(
                             NeutralizeMods([s EXCEPT !.pth_status = PTH_DECIDED_TAP]),
                             depth),
                         depth),
                     depth),
                 BEFORE_SECOND, depth),
             depth)

\* a tap-hold second key is registered as hold or as tap
ResolveSecond(s) ==
    IF s.second_is_tap_hold
    THEN IF /\ s.second_is_same_side_as_pth
            /\ pth_should_register_as_hold_when_same_side(s.second_keycode, s.second_record)
         THEN [s EXCEPT !.second_record = set_record_to_hold(@)]
         ELSE SecondBecomesTap(s)
    ELSE s

FlushAfterSecond(s, depth) ==
    process_release_records(s, AFTER_SECOND, s.second_was_held_instantly, depth)

\* make_decision_hold after the hold register and the BEFORE_SECOND flush
HoldSecondPart(s, depth) ==
    IF ~s.has_second
    THEN s
    ELSE ReleaseSecond(
             FlushAfterSecond(IF ~s.second_was_held_instantly
                              THEN RegisterSecond(ResolveSecond(s), depth)
                              ELSE s,
                              depth),
             depth)

FlushBeforeSecond(s, depth) ==
    process_release_records(s, BEFORE_SECOND, s.pth_was_held_instantly, depth)

\* variant: the hold decision without the test of the status
\* (DecisionIsFinal tells it from make_decision_hold)
DecideHoldUnguarded(s, depth) ==
    HoldSecondPart(
        FlushBeforeSecond(
            IF ~s.pth_was_held_instantly
            THEN register_pth_hold([s EXCEPT !.pth_status = PTH_DECIDED_HOLD], depth)
            ELSE [s EXCEPT !.pth_status = PTH_DECIDED_HOLD],
            depth),
        depth)

make_decision_hold(s, depth) ==
    IF s.pth_status >= PTH_DECIDED_TAP
    THEN s
    ELSE HoldSecondPart(
             FlushBeforeSecond(
                 IF ~s.pth_was_held_instantly
                 THEN register_pth_hold([s EXCEPT !.pth_status = PTH_DECIDED_HOLD], depth)
                 ELSE [s EXCEPT !.pth_status = PTH_DECIDED_HOLD],
                 depth),
             depth)

\* the code under #ifdef PTH_RESET_IMMEDIATELY_WHEN_TAP_CHOSEN after a tap decision
ResetImmediately(s) ==
    IF s.cfg.reset_immediately
    THEN reset_pth_state(add_pos_to_tap_releases(s, s.pth_record.key))
    ELSE s

MakeChoice(s, choice, depth) ==
    IF choice = PTH_DECIDED_HOLD THEN make_decision_hold(s, depth)
    ELSE IF choice = PTH_DECIDED_TAP THEN ResetImmediately(make_decision_tap(s, depth))
    ELSE s

AskChoice(s, depth) == MakeChoice(s, pth_get_forced_choice_after_timeout(s), depth)

make_user_choice_or_not(s, depth) ==
    AskChoice([s EXCEPT !.has_chosen_after_timeout_reached = TRUE], depth)

\* variant: a release decrements down_count also when it is 0
\* (DownCountTracksKeyboard tells it from
\* collect_new_press_to_press_and_overlap_duration)
CollectWithoutSaturation(s, is_pressed, cur_time) ==
    LET Press(p_to_p_dur, dc) ==
            [s EXCEPT !.prev_press_to_press_dur = s.cur_press_to_press_dur,
                      !.cur_press_to_press_dur = ToInt16(p_to_p_dur),
                      !.press_to_press_timer = cur_time,
                      !.press_to_press_timer_max_reached = FALSE,
                      !.down_count = dc,
                      !.overlap_timer = IF dc = 2 THEN cur_time ELSE @,
                      !.overlap_timer_max_reached = IF dc = 2 THEN FALSE ELSE @]
        Release(overlap) ==
            [s EXCEPT !.down_count = U8(@ + 255),
                      !.prev_overlap_dur = s.cur_overlap_dur,
                      !.cur_overlap_dur = ToInt16(overlap),
                      !.overlap_timer = cur_time,
                      !.overlap_timer_max_reached = FALSE,
                      !.release_timer = cur_time,
                      !.release_timer_max_reached = FALSE]
    IN  IF is_pressed
        THEN Press(IF s.press_to_press_timer_max_reached
                   THEN MS_MAX_DUR_FOR_TIMERS
                   ELSE TIMER_DIFF_16(cur_time, s.press_to_press_timer),
                   U8(s.down_count + 1))
        ELSE Release(IF s.down_count >= 2
                     THEN IF s.overlap_timer_max_reached
                          THEN MS_MAX_DUR_FOR_TIMERS
                          ELSE TIMER_DIFF_16(cur_time, s.overlap_timer)
                     ELSE 0)

\* ------------------------------------------------------ timing tracker
collect_new_press_to_press_and_overlap_duration(s, is_pressed, cur_time) ==
    LET Press(p_to_p_dur, dc) ==
            [s EXCEPT !.prev_press_to_press_dur = s.cur_press_to_press_dur,
                      !.cur_press_to_press_dur = ToInt16(p_to_p_dur),
                      !.press_to_press_timer = cur_time,
                      !.press_to_press_timer_max_reached = FALSE,
                      !.down_count = dc,
                      !.overlap_timer = IF dc = 2 THEN cur_time ELSE @,
                      !.overlap_timer_max_reached = IF dc = 2 THEN FALSE ELSE @]
        Release(overlap) ==
            [s EXCEPT !.down_count = IF @ > 0 THEN @ - 1 ELSE @,
                      !.prev_overlap_dur = s.cur_overlap_dur,
                      !.cur_overlap_dur = ToInt16(overlap),
                      !.overlap_timer = cur_time,
                      !.overlap_timer_max_reached = FALSE,
                      !.release_timer = cur_time,
                      !.release_timer_max_reached = FALSE]
    IN  IF is_pressed
        THEN Press(IF s.press_to_press_timer_max_reached
                   THEN MS_MAX_DUR_FOR_TIMERS
                   ELSE TIMER_DIFF_16(cur_time, s.press_to_press_timer),
                   U8(s.down_count + 1))
        ELSE Release(IF s.down_count >= 2
                     THEN IF s.overlap_timer_max_reached
                          THEN MS_MAX_DUR_FOR_TIMERS
                          ELSE TIMER_DIFF_16(cur_time, s.overlap_timer)
                     ELSE 0)

\* store_press_to_press_and_overlap_for_pth (the two weighted averages are
\* functions of the four durations stored here and are not kept)
store_press_to_press_and_overlap_for_pth(s) ==
    LET Store(down_count_before_this) ==
            [s EXCEPT !.pth_prev_prev_press_to_prev_press_dur = s.prev_press_to_press_dur,
                      !.pth_prev_press_to_pth_press_dur = s.cur_press_to_press_dur,
                      !.pth_prev_prev_overlap_dur =
                          IF down_count_before_this = 1 THEN s.cur_overlap_dur
                          ELSE IF down_count_before_this >= 2 THEN 0
                          ELSE s.prev_overlap_dur,
                      !.pth_prev_overlap_dur =
                          IF down_count_before_this = 1 THEN 0
                          ELSE IF down_count_before_this >= 2
                               THEN IF s.overlap_timer_max_reached
                                    THEN MS_MAX_DUR_FOR_TIMERS
                                    ELSE ToInt16(TIMER_DIFF_16(s.timer, s.overlap_timer))
                          ELSE s.cur_overlap_dur]
    IN  Store(U8(s.down_count + 255))

\* ------------------------------------------------------------ dispatcher
Ret(s, value) == [s EXCEPT !.ret = value]

\* the duration a timer shows at cur_time, capped once its flag is set
TimerDur(max_reached, cur_time, timer) ==
    IF max_reached THEN MS_MAX_DUR_FOR_TIMERS ELSE TIMER_DIFF_16(cur_time, timer)

\* case PTH_IDLE, a tap-hold key is pressed: the PTH's fields
IdleStart(s, keycode, record, cur_time, side) ==
    [s EXCEPT !.pth_status = PTH_PRESSED,
              !.pth_press_timer = cur_time,
              !.pth_keycode = keycode,
              !.pth_record = record,
              !.pth_side_user_bits = PTH_GET_USER_BITS(side),
              !.pth_atomic_side = PTH_GET_PTH_ATOM_SIDE(side),
              !.key_release_before_pth_to_pth_press_dur =
                  TimerDur(s.release_timer_max_reached, cur_time, s.release_timer),
              !.out = <<>>]

IdlePolicies(s) ==
    [s EXCEPT !.pth_tap_code_instead_of_hold =
                  pth_get_code_to_be_registered_instead_when_hold_chosen(s),
              !.timeout_for_forcing_choice = pth_get_timeout_for_forcing_choice(s)]

\* variant: the forced choice at the press also for a negative timeout
\* (NegativeTimeoutNeverForces tells it from IdleForcedChoice)
ForcedChoiceWhenNotPositive(s, depth) ==
    IF s.timeout_for_forcing_choice <= 0 THEN make_user_choice_or_not(s, depth) ELSE s

\* variant: no forced choice at the press (ZeroTimeoutForcesAtPress tells it
\* from IdleForcedChoice)
IdleNoForcedChoice(s, depth) == s

IdleForcedChoice(s, depth) ==
    IF s.timeout_for_forcing_choice = 0 THEN make_user_choice_or_not(s, depth) ELSE s

\* under PTH_FAST_STREAK_TAP_RESET_IMMEDIATELY
IdleFastStreakReset(s, depth) ==
    reset_pth_state(
        add_pos_to_tap_releases(
            process_register_record_as_tap(s, <<"pth">>, s.pth_record, depth),
            s.pth_record.key))

IdleRememberLayer(s, keycode) ==
    IF IS_QK_LAYER_TAP(keycode)
    THEN [s EXCEPT !.instant_layer_was_active = TRUE,
                   !.layer_before_instant_layer_tap = layer_switch_get_layer(s, s.pth_record.key)]
    ELSE s

IdleHold(s, keycode, depth) ==
    IF s.pth_was_held_instantly
    THEN process_register_record_as_hold(IdleRememberLayer(s, keycode), <<"pth">>,
                                         s.pth_record, depth)
    ELSE s

\* pth_keycode and pth_record are read as they are now: after a reset in the
\* forced choice they are KC_NO and a record at EMPTY_KEYPOS
IdleInstantHold(s, keycode, depth) ==
    IdleHold([s EXCEPT !.pth_was_held_instantly =
                           /\ s.pth_tap_code_instead_of_hold = KC_NO
                           /\ pth_should_hold_instantly(s, s.pth_keycode)],
             keycode, depth)

IdleRest(s, keycode, depth) ==
    IF s.timeout_for_forcing_choice = 0 /\ s.pth_status >= PTH_DECIDED_TAP
    THEN s
    ELSE IF s.cfg.fast_streak # "off" /\ pth_predict_fast_streak_tap(s)
    THEN IF s.cfg.fast_streak = "reset"
         THEN IdleFastStreakReset(s, depth)
         ELSE make_decision_tap(s, depth)
    ELSE IdleInstantHold(s, keycode, depth)

IdlePress(s, keycode, record, cur_time, depth) ==
    Ret(IdleRest(
            IdleForcedChoice(
                IdlePolicies(
                    store_press_to_press_and_overlap_for_pth(
                        IdleStart(s, keycode, record, cur_time, pth_get_side(record.key)))),
                depth),
            keycode, depth),
        FALSE)

\* case PTH_PRESSED, a key is pressed: the second key's fields
SecondStart(s, keycode, record, is_tap_hold, cur_time) ==
    [s EXCEPT !.pth_status = PTH_SECOND_PRESSED,
              !.has_second = TRUE,
              !.second_press_timer = cur_time,
              !.second_keycode = keycode,
              !.second_record = record,
              !.second_is_tap_hold = is_tap_hold,
              !.second_is_same_side_as_pth = is_record_same_side_as_pth(s, record),
              !.pth_press_to_second_press_dur =
                  TimerDur(s.pth_press_timer_max_reached, cur_time, s.pth_press_timer)]

\* variant: the prediction is stored as it is returned (MinOverlapClamped
\* tells it from SecondOverlap)
SecondOverlapUnclamped(s) ==
    IF s.second_is_tap_hold \/ ~s.second_is_same_side_as_pth
    THEN [s EXCEPT !.min_overlap_dur_for_hold = pth_predict_min_overlap_for_hold_in_ms(s)]
    ELSE s

SecondOverlap(s) ==
    IF s.second_is_tap_hold \/ ~s.second_is_same_side_as_pth
    THEN [s EXCEPT !.min_overlap_dur_for_hold =
                       MIN(PTH_MS_MAX_OVERLAP,
                           MAX(PTH_MS_MIN_OVERLAP, pth_predict_min_overlap_for_hold_in_ms(s)))]
    ELSE s

SecondRememberLayer(s) ==
    IF ~s.instant_layer_was_active /\ IS_QK_LAYER_TAP(s.second_keycode)
    THEN [s EXCEPT !.layer_before_instant_layer_tap =
                       layer_switch_get_layer(s, s.second_record.key),
                   !.instant_layer_was_active = TRUE]
    ELSE s

SecondInstantHold(s, depth) ==
    process_register_record_as_hold(
        [SecondRememberLayer(s) EXCEPT !.second_was_held_instantly = TRUE],
        <<"second">>, s.second_record, depth)

SecondSameSide(s, depth) ==
    IF pth_should_choose_tap_when_second_is_same_side_press(s)
    THEN ResetImmediately(make_decision_tap(s, depth))
    ELSE IF s.second_is_tap_hold /\ pth_second_should_hold_instantly(s, s.second_keycode)
    THEN SecondInstantHold(s, depth)
    ELSE s

\* variant: no early return for an opposite-side second key
\* (SecondHeldInstantlyOnSameSide tells it from SecondAfterOverlap)
SecondEitherSide(s, depth) == SecondSameSide(s, depth)

SecondAfterOverlap(s, depth) ==
    IF ~s.second_is_same_side_as_pth THEN s ELSE SecondSameSide(s, depth)

SecondRest(s, depth) ==
    IF s.pth_was_held_instantly /\ s.instant_layer_was_active /\ s.second_keycode = KC_NO
    THEN ResetImmediately(make_decision_tap(s, depth))
    ELSE SecondAfterOverlap(SecondOverlap(s), depth)

SecondPress(s, keycode, record, is_tap_hold, cur_time, depth) ==
    Ret(SecondRest(SecondStart(s, keycode, record, is_tap_hold, cur_time), depth), FALSE)

\* the PTH is released after a tap decision: send_and_wait, unregister, reset
UnregisterPthTap(s, depth) ==
    process_unregister_record_as_tap(s, <<"pth">>, s.pth_record, depth)

TapAndRelease(s, depth) ==
    UnregisterPthTap(send_and_wait(make_decision_tap(s, depth)), depth)

\* case PTH_PRESSED, a key is released
PressedRelease(s, record, depth) ==
    IF record.key = s.pth_record.key
    THEN Ret(reset_pth_state(TapAndRelease(s, depth)), FALSE)
    ELSE Ret(add_release_record(s, record, BEFORE_SECOND, depth), FALSE)

\* the third key is processed after the decision
ThirdRegister(s, hold, keycode, record, third_is_tap_hold, depth) ==
    IF third_is_tap_hold
    THEN IF /\ hold
            /\ is_record_same_side_as_pth(s, record)
            /\ pth_should_register_as_hold_when_same_side(keycode, record)
         THEN process_register_record_as_hold(s, <<"local">>, record, depth)
         ELSE process_register_record_as_tap(
                  add_pos_to_tap_releases(s, record.key), <<"local">>, record, depth)
    ELSE process_record_with_new_time(s, <<"local">>, record, depth)

\* after a tap decision the third key's keycode is that of the layer before
\* the instant layer-tap, if one was active
ThirdKeycode(s, keycode, record) ==
    IF s.instant_layer_was_active
    THEN get_keycode_same_pos_in_layer(record, s.layer_before_instant_layer_tap)
    ELSE keycode

ThirdAfterTap(s, keycode, record, is_tap_hold, depth) ==
    ThirdRegister(s, FALSE, ThirdKeycode(s, keycode, record), record,
                  IF s.instant_layer_was_active
                  THEN pth_is_tap_hold_keycode(ThirdKeycode(s, keycode, record))
                  ELSE is_tap_hold,
                  depth)

\* variant: a third press that chooses tap whatever the prediction
\* (ThirdPressDecides tells it from ThirdDecide)
ThirdDecideTap(s, keycode, record, is_tap_hold, depth) ==
    ResetImmediately(
        ThirdAfterTap(make_decision_tap(s, depth), keycode, record, is_tap_hold, depth))

ThirdDecide(s, keycode, record, is_tap_hold, depth) ==
    IF pth_predict_hold_when_third_press(s)
    THEN ThirdRegister(make_decision_hold(s, depth), TRUE, keycode, record, is_tap_hold, depth)
    ELSE ResetImmediately(
             ThirdAfterTap(make_decision_tap(s, depth), keycode, record, is_tap_hold, depth))

\* case PTH_SECOND_PRESSED, a key is pressed: the third key
ThirdPress(s, keycode, record, is_tap_hold, cur_time, depth) ==
    Ret(ThirdDecide([s EXCEPT !.pth_second_press_to_third_press_dur =
                                  TimerDur(s.second_press_timer_max_reached, cur_time,
                                           s.second_press_timer)],
                    keycode, record, is_tap_hold, depth),
        FALSE)

\* case PTH_SECOND_PRESSED, the PTH is released: hold is the prediction
PthReleased(s, hold, depth) ==
    IF hold
    THEN unregister_pth_hold(make_decision_hold(s, depth), depth)
    ELSE TapAndRelease(s, depth)

PredictOnPthRelease(s) ==
    IF ~s.second_is_same_side_as_pth
    THEN IF s.second_to_be_released
         THEN pth_predict_hold_when_pth_release_after_second_release(s)
         ELSE pth_predict_hold_when_pth_release_after_second_press(s)
    ELSE FALSE

\* case PTH_SECOND_PRESSED, the second key is released
SecondReleased(s, cur_time, depth) ==
    IF /\ s.second_is_same_side_as_pth
       /\ pth_should_choose_tap_when_second_is_same_side_release(s)
    THEN ResetImmediately(make_decision_tap(s, depth))
    ELSE [s EXCEPT !.pth_press_to_second_release_dur =
                       TimerDur(s.pth_press_timer_max_reached, cur_time, s.pth_press_timer),
                   !.pth_second_dur =
                       TimerDur(s.second_press_timer_max_reached, cur_time,
                                s.second_press_timer)]

\* variant: the release of the second key is cached like that of any other
\* key (CacheHoldsEmittedKeys tells it from SecondPressedRelease)
CacheSecondRelease(s, record, cur_time, depth) ==
    IF record.key = s.pth_record.key
    THEN Ret(reset_pth_state(PthReleased(s, PredictOnPthRelease(s), depth)), FALSE)
    ELSE Ret(add_release_record(s, record, AFTER_SECOND, depth), FALSE)

\* case PTH_SECOND_PRESSED, a key is released
SecondPressedRelease(s, record, cur_time, depth) ==
    IF record.key = s.pth_record.key
    THEN Ret(reset_pth_state(PthReleased(s, PredictOnPthRelease(s), depth)), FALSE)
    ELSE IF record.key = s.second_record.key
    THEN Ret(SecondReleased([s EXCEPT !.second_to_be_released = TRUE], cur_time, depth), FALSE)
    ELSE Ret(add_release_record(s, record, AFTER_SECOND, depth), FALSE)

\* the end of the dispatcher, reached by the cases that break
DispatchTail(s, record) ==
    Ret(IF /\ ~record.pressed
           /\ ~s.second_was_held_instantly
           /\ record.key = s.second_record.key
        THEN send_and_wait(s)
        ELSE s,
        TRUE)

\* a tap-hold pressed after the decision is registered as tap and remembered
RegisterAsTapAndRemember(s, record, depth) ==
    process_register_record_as_tap(
        add_pos_to_tap_releases(s, record.key), <<"local">>, record, depth)

\* case PTH_DECIDED_TAP and case PTH_DECIDED_HOLD
DecidedCases(s, keycode, record, is_tap_hold, depth) ==
    CASE s.pth_status = PTH_DECIDED_TAP /\ record.pressed /\ is_tap_hold ->
             Ret(RegisterAsTapAndRemember(s, record, depth), FALSE)
      [] s.pth_status = PTH_DECIDED_TAP /\ ~record.pressed /\ record.key = s.pth_record.key ->
             Ret(reset_pth_state(UnregisterPthTap(send_and_wait(s), depth)), FALSE)
      [] s.pth_status = PTH_DECIDED_HOLD /\ record.pressed /\ is_tap_hold ->
             Ret(ThirdRegister(s, TRUE, keycode, record, TRUE, depth), FALSE)
      [] s.pth_status = PTH_DECIDED_HOLD /\ ~record.pressed /\ record.key = s.pth_record.key ->
             Ret(reset_pth_state(unregister_pth_hold(s, depth)), FALSE)
      [] OTHER -> DispatchTail(s, record)

\* the switch on pth_status; record is the caller's record after the lookup in
\* the tap-release set
DispatchSwitch(s, keycode, record, is_tap_hold, cur_time, depth) ==
    CASE s.pth_status = PTH_IDLE /\ record.pressed /\ is_tap_hold ->
             IdlePress(s, keycode, record, cur_time, depth)
      [] s.pth_status = PTH_PRESSED /\ record.pressed ->
             SecondPress(s, keycode, record, is_tap_hold, cur_time, depth)
      [] s.pth_status = PTH_PRESSED /\ ~record.pressed ->
             PressedRelease(s, record, depth)
      [] s.pth_status = PTH_SECOND_PRESSED /\ record.pressed ->
             ThirdPress(s, keycode, record, is_tap_hold, cur_time, depth)
      [] s.pth_status = PTH_SECOND_PRESSED /\ ~record.pressed ->
             SecondPressedRelease(s, record, cur_time, depth)
      [] OTHER -> DecidedCases(s, keycode, record, is_tap_hold, depth)

\* a press: the keycodes of the last two presses are remembered
DispatchPress(s, keycode, record, cur_time, depth) ==
    DispatchSwitch([s EXCEPT !.prev_press_keycode = s.cur_press_keycode,
                             !.cur_press_keycode = keycode],
                   keycode, record, pth_is_tap_hold_keycode(keycode), cur_time, depth)

\* variant: a release that does not look the position up in the tap-release
\* set (TapReleaseTrackingWithinCapacity tells it from DispatchRelease)
ReleaseWithoutLookup(s, keycode, record, cur_time, depth) ==
    DispatchSwitch(s, keycode, record, pth_is_tap_hold_keycode(keycode), cur_time, depth)

\* a release: a position in the tap-release set is released as tap, at once
\* unless the release is being cached
DispatchRelease(s, keycode, record, cur_time, depth) ==
    IF remove_pos_found(s, record.key)
    THEN IF s.pth_status \in {PTH_PRESSED, PTH_SECOND_PRESSED}
         THEN DispatchSwitch(remove_pos_from_tap_releases(s, record.key), keycode,
                             set_record_to_tap(record), pth_is_tap_hold_keycode(keycode),
                             cur_time, depth)
         ELSE Ret(process_unregister_record_as_tap(
                      remove_pos_from_tap_releases(s, record.key), <<"local">>, record, depth),
                  FALSE)
    ELSE DispatchSwitch(s, keycode, record, pth_is_tap_hold_keycode(keycode), cur_time, depth)

\* the dispatcher from collect_new_press_to_press_and_overlap_duration on
Dispatch(s, keycode, record, cur_time, depth) ==
    IF record.pressed
    THEN DispatchPress(
             collect_new_press_to_press_and_overlap_duration(
                 [s EXCEPT !.nested_ran = @ \/ depth > 0], TRUE, cur_time),
             keycode, record, cur_time, depth)
    ELSE DispatchRelease(
             collect_new_press_to_press_and_overlap_duration(
                 [s EXCEPT !.nested_ran = @ \/ depth > 0], FALSE, cur_time),
             keycode, record, cur_time, depth)

\* variant: the dispatcher without the guards of the tapping term, the tap
\* dance and the combo (GuardedEventsLeavePthUntouched tells it from
\* process_record_predictive_tap_hold)
DispatcherWithFirstGuardOnly(s, keycode, record, depth) ==
    IF s.is_processing_record_due_to_pth \/ ~IS_KEYEVENT(record)
    THEN Ret(s, TRUE)
    ELSE Dispatch(s, keycode, record, s.timer, depth)

\* the build has TAPPING_TERM_PER_KEY, TAP_DANCE_ENABLE and COMBO_ENABLE
process_record_predictive_tap_hold(s, keycode, record, depth) ==
    IF s.is_processing_record_due_to_pth \/ ~IS_KEYEVENT(record)
    THEN Ret(s, TRUE)
    ELSE IF get_tapping_term(keycode, record) # 0
    THEN Ret(s, TRUE)
    ELSE IF IS_QK_TAP_DANCE(keycode)
    THEN Ret(s, TRUE)
    ELSE IF IS_COMBOEVENT(record)
    THEN Ret(s, TRUE)
    ELSE Dispatch(s, keycode, record, s.timer, depth)

\* The host's process_record: the keycode is the one of the layer the key was
\* pressed on; the module's handler runs first and the host's action only if
\* it returns true.  Each unguarded nesting costs stack, which is finite.
RememberSourceLayer(s, record) ==
    IF record.pressed /\ record.key \in Positions
    THEN [s EXCEPT !.source_layer[record.key] = layer_switch_get_layer(s, record.key)]
    ELSE s

HandleRecord(s, record, depth) ==
    process_record_predictive_tap_hold(s, RecordKeycode(s, record.key), record, depth)

ActOnRecord(s, record) == IF ~s.crashed /\ s.ret THEN process_action(s, record) ELSE s

process_record(s, record, depth) ==
    IF depth > MaxNest
    THEN [s EXCEPT !.crashed = TRUE]
    ELSE ActOnRecord(HandleRecord(RememberSourceLayer(s, record), record, depth), record)

\* ----------------------------------------------------------- housekeeping
HousekeepingFlags(s, cur_time) ==
    [s EXCEPT !.release_timer_max_reached =
                  @ \/ TIMER_DIFF_16(cur_time, s.release_timer) >= MS_MAX_DUR_FOR_TIMERS,
              !.overlap_timer_max_reached =
                  @ \/ (/\ s.down_count >= 2
                        /\ TIMER_DIFF_16(cur_time, s.overlap_timer) >= MS_MAX_DUR_FOR_TIMERS),
              !.press_to_press_timer_max_reached =
                  @ \/ TIMER_DIFF_16(cur_time, s.press_to_press_timer) >= MS_MAX_DUR_FOR_TIMERS]

\* variant: the forced choice only after more than the timeout has passed
\* (PendingDecisionIsMade tells it from HousekeepingPthTimer)
HousekeepingLateTimeout(s, cur_time) ==
    IF s.pth_press_timer_max_reached
    THEN s
    ELSE IF TIMER_DIFF_16(cur_time, s.pth_press_timer) >= MS_MAX_DUR_FOR_TIMERS
    THEN [s EXCEPT !.pth_press_timer_max_reached = TRUE]
    ELSE IF /\ ~s.has_chosen_after_timeout_reached
            /\ s.timeout_for_forcing_choice > 0
            /\ TIMER_DIFF_16(cur_time, s.pth_press_timer) > s.timeout_for_forcing_choice
    THEN make_user_choice_or_not(s, 0)
    ELSE s

\* if (!pth_press_timer_max_reached) { ... }
HousekeepingPthTimer(s, cur_time) ==
    IF s.pth_press_timer_max_reached
    THEN s
    ELSE IF TIMER_DIFF_16(cur_time, s.pth_press_timer) >= MS_MAX_DUR_FOR_TIMERS
    THEN [s EXCEPT !.pth_press_timer_max_reached = TRUE]
    ELSE IF /\ ~s.has_chosen_after_timeout_reached
            /\ s.timeout_for_forcing_choice > 0
            /\ TIMER_DIFF_16(cur_time, s.pth_press_timer) >= s.timeout_for_forcing_choice
    THEN make_user_choice_or_not(s, 0)
    ELSE s

\* variant: the housekeeping task without the check of min_overlap_dur_for_hold
\* (LongOverlapIsHold tells it from HousekeepingSecondTimer)
HousekeepingWithoutOverlap(s, cur_time) == HousekeepingPthTimer(s, cur_time)

\* if (!second_press_timer_max_reached && pth_status == PTH_SECOND_PRESSED) { ... }
HousekeepingSecondTimer(s, cur_time) ==
    IF ~s.second_press_timer_max_reached /\ s.pth_status = PTH_SECOND_PRESSED
    THEN IF /\ s.min_overlap_dur_for_hold > 0
            /\ TIMER_DIFF_16(cur_time, s.second_press_timer) >= s.min_overlap_dur_for_hold
         THEN make_decision_hold(s, 0)
         ELSE HousekeepingPthTimer(
                  IF TIMER_DIFF_16(cur_time, s.second_press_timer) >= MS_MAX_DUR_FOR_TIMERS
                  THEN [s EXCEPT !.second_press_timer_max_reached = TRUE]
                  ELSE s,
                  cur_time)
    ELSE HousekeepingPthTimer(s, cur_time)

HousekeepingActive(s, cur_time) ==
    IF s.pth_status = PTH_IDLE \/ s.pth_status >= PTH_DECIDED_TAP
    THEN s
    ELSE HousekeepingSecondTimer(s, cur_time)

housekeeping_task_predictive_tap_hold(s) ==
    HousekeepingActive(HousekeepingFlags(s, s.timer), s.timer)

\* ---------------------------------------------------------------- actions
\* milliseconds between two runs of the housekeeping task
TickSteps == {39, 193, 3396}
\* what pth_predict_min_overlap_for_hold_in_ms may return (clamped by the caller)
Overlaps == {0, 1000}

NoInstantCfg == [DefaultCfg EXCEPT !.hold_instantly = "never"]
ResetCfg == [DefaultCfg EXCEPT !.reset_immediately = TRUE]
StreakCfg == [DefaultCfg EXCEPT !.fast_streak = "on"]
StreakResetCfg == [DefaultCfg EXCEPT !.fast_streak = "reset"]
Cfgs == {DefaultCfg, NoInstantCfg, ResetCfg, StreakCfg, StreakResetCfg}

\* the results the weak prediction functions may give during the event
PredSet(s, k, pressed) ==
    LET keycode == Keymap(layer_switch_get_layer(s, k), k)
    IN  IF pressed /\ s.pth_status = PTH_PRESSED
           /\ (pth_is_tap_hold_keycode(keycode) \/ ~is_record_same_side_as_pth(s, Record(k, TRUE, 0)))
        THEN {[hold |-> FALSE, overlap |-> o] : o \in Overlaps}
        ELSE IF \/ pressed /\ s.pth_status = PTH_SECOND_PRESSED
                \/ /\ ~pressed
                   /\ s.pth_status = PTH_SECOND_PRESSED
                   /\ k = s.pth_record.key
                   /\ ~s.second_is_same_side_as_pth
        THEN {[hold |-> h, overlap |-> 0] : h \in BOOLEAN}
        ELSE {NoPred}

\* the matrix scan reports a key event: process_record on a fresh record
KeyEvent(s, k, pressed, p) ==
    [process_record([s EXCEPT !.pred = p], Record(k, pressed, s.timer), 0) EXCEPT !.pred = NoPred]

\* dt milliseconds pass and the housekeeping task runs
TickBy(s, dt) == housekeeping_task_predictive_tap_hold([s EXCEPT !.timer = U16(@ + dt)])

Preds(k, pressed) ==
    IF mode = "pair" THEN PredSet(st, k, pressed) \cup PredSet(sh, k, pressed)
    ELSE PredSet(st, k, pressed)

\* What the typist did, in terms of the input only:
\*   pth       the tap-hold key of the last press in Idle ("none" if that
\*             press was of another key)
\*   lone      the tap-hold key pressed in Idle with no key pressed and no
\*             forced choice since ("none" if there is none)
\*   tapped    the lone key, in the state right after its release
\*   deferred  the keys released while the status was Pressed, since the last
\*             press in Idle
\*   cached    the keys released while the status was Pressed or SecondPressed
\*             (the PTH key and the second key apart), in the order of their
\*             release and each with the partition of its release, since the
\*             last press in Idle
\*   fastroll  the second key, opposite side and not tap-hold, was released
\*             before min_overlap_dur_for_hold had passed since its press
\*   predhold  a prediction function returned hold since the last press in Idle
\*   held      in a paired run: one of the two keyboards has decided hold
\*   last      the last step
NoObs ==
    [pth |-> "none", lone |-> "none", tapped |-> "none", deferred |-> {}, cached |-> <<>>,
     fastroll |-> FALSE, predhold |-> FALSE, held |-> FALSE, last |-> "init"]

ObsPress(k, p) ==
    LET idle == st.pth_status = PTH_IDLE
        keycode == Keymap(layer_switch_get_layer(st, k), k)
    IN  [pth |-> IF idle THEN (IF pth_is_tap_hold_keycode(keycode) THEN k ELSE "none")
                 ELSE obs.pth,
         lone |-> IF idle /\ pth_is_tap_hold_keycode(keycode) THEN k ELSE "none",
         tapped |-> "none",
         deferred |-> IF idle THEN {} ELSE obs.deferred,
         cached |-> IF idle THEN <<>> ELSE obs.cached,
         fastroll |-> IF idle THEN FALSE ELSE obs.fastroll,
         predhold |-> IF idle THEN FALSE ELSE obs.predhold \/ p.hold,
         held |-> obs.held,
         last |-> "press"]

ObsRelease(k, p) ==
    [pth |-> obs.pth,
     lone |-> IF k = obs.lone THEN "none" ELSE obs.lone,
     tapped |-> IF k = obs.lone THEN k ELSE "none",
     deferred |-> IF st.pth_status = PTH_PRESSED /\ k # st.pth_record.key
                  THEN obs.deferred \cup {k} ELSE obs.deferred,
     cached |-> IF /\ st.pth_status \in {PTH_PRESSED, PTH_SECOND_PRESSED}
                   /\ k # st.pth_record.key
                   /\ ~(st.pth_status = PTH_SECOND_PRESSED /\ k = st.second_record.key)
                THEN Append(obs.cached,
                            <<k, IF st.pth_status = PTH_PRESSED
                                 THEN BEFORE_SECOND ELSE AFTER_SECOND>>)
                ELSE obs.cached,
     fastroll |-> \/ obs.fastroll
                  \/ /\ st.pth_status = PTH_SECOND_PRESSED
                     /\ k = st.second_record.key
                     /\ ~st.second_is_same_side_as_pth
                     /\ ~st.second_is_tap_hold
                     /\ TIMER_DIFF_16(st.timer, st.second_press_timer) < st.min_overlap_dur_for_hold,
     predhold |-> obs.predhold \/ p.hold,
     held |-> obs.held,
     last |-> "release"]

\* the keyboard has decided hold in the step that led to s2
DecidedHold(s2) == s2.pth_status = PTH_DECIDED_HOLD \/ s2.pth_prev_status = PTH_DECIDED_HOLD

\* the observation o of a step that led to s2 (and, in a paired run, h2)
ObsAfter(o, s2, h2) ==
    [o EXCEPT !.held = @ \/ (mode = "pair" /\ (DecidedHold(s2) \/ DecidedHold(h2)))]

ObsTick(s2) ==
    [obs EXCEPT !.lone = IF s2.has_chosen_after_timeout_reached THEN "none" ELSE @,
                !.tapped = "none",
                !.last = "tick"]

KeyPress ==
    /\ ~st.crashed /\ nkeys < MaxKeyEvents
    /\ \E k \in keys \ down : \E p \in Preds(k, TRUE) :
         /\ st' = KeyEvent(st, k, TRUE, p)
         /\ sh' = IF mode = "pair" THEN KeyEvent(sh, k, TRUE, p) ELSE sh
         /\ down' = down \cup {k}
         /\ obs' = ObsAfter(ObsPress(k, p), st', sh')
    /\ nkeys' = nkeys + 1
    /\ UNCHANGED <<mode, keys, nticks, mlat>>

KeyRelease ==
    /\ ~st.crashed /\ nkeys < MaxKeyEvents
    /\ \E k \in down \cap keys : \E p \in Preds(k, FALSE) :
         /\ st' = KeyEvent(st, k, FALSE, p)
         /\ sh' = IF mode = "pair" THEN KeyEvent(sh, k, FALSE, p) ELSE sh
         /\ down' = down \ {k}
         /\ obs' = ObsAfter(ObsRelease(k, p), st', sh')
    /\ nkeys' = nkeys + 1
    /\ UNCHANGED <<mode, keys, nticks, mlat>>

Tick ==
    /\ ~st.crashed /\ nticks < MaxTicks
    /\ \E dt \in TickSteps :
         /\ st' = TickBy(st, dt)
         /\ sh' = IF mode = "pair" THEN TickBy(sh, dt) ELSE sh
         /\ obs' = ObsAfter(ObsTick(st'), st', sh')
    /\ nticks' = nticks + 1
    /\ UNCHANGED <<mode, down, keys, nkeys, mlat>>

Next == KeyPress \/ KeyRelease \/ Tick

\* the host hands the dispatcher an event of a key it handles itself, a combo
\* or an encoder step
GuardedEvent ==
    /\ ~st.crashed /\ nkeys < MaxKeyEvents
    /\ \/ \E k \in GuardKeys \ down :
            /\ st' = KeyEvent(st, k, TRUE, NoPred)
            /\ down' = down \cup {k}
       \/ \E k \in GuardKeys \cap down :
            /\ st' = KeyEvent(st, k, FALSE, NoPred)
            /\ down' = down \ {k}
       \/ \E type \in {"COMBO_EVENT", "ENCODER_CW_EVENT"}, pressed \in BOOLEAN :
            /\ st' = process_record(st, EventRecord(type, pressed, st.timer), 0)
            /\ down' = down
    /\ nkeys' = nkeys + 1
    /\ obs' = [obs EXCEPT !.last = "guarded"]
    /\ UNCHANGED <<sh, mode, keys, nticks, mlat>>

NextGuards == KeyPress \/ KeyRelease \/ Tick \/ GuardedEvent

\* ------------------------------------------------ Magic Layer Alt-Tab
\* #define MAGIC_LAYER_ALT_TAB_LAYER in the keymap's config.h
MAGIC_LAYER_ALT_TAB_LAYER == 1

\* the keys of the keyboard that runs Magic Layer Alt-Tab: MO switches the
\* layer on while it is down; AT, SAT and B are the two Alt-Tab keys and the
\* mouse button of that layer; AT0 is an Alt-Tab key of the base layer
AltTabKeys == {"MO", "AT", "SAT", "B", "X", "AT0"}

AltTabKeymap(layer, pos) ==
    IF layer = 0
    THEN CASE pos = "MO" -> "MO_1"
           [] pos = "AT" -> "KC_A"
           [] pos = "SAT" -> "KC_S"
           [] pos = "B" -> "KC_B"
           [] pos = "X" -> "KC_X"
           [] pos = "AT0" -> "LALT_TAB"
    ELSE CASE pos = "AT" -> "LALT_TAB"
           [] pos = "SAT" -> "LSA_TAB"
           [] pos = "B" -> "KC_BTN1"
           [] OTHER -> KC_TRNS

\* static bool alt_tab_running = false, and the host: the layers that are on,
\* the modifiers registered with register_mods, the keycode each key that is
\* down had at its press; ev, out and ret are the event being processed, what
\* the module did in it and what process_record_magic_layer_alt_tab returned
AltTabConstruct ==
    [alt_tab_running |-> FALSE,
     layer_state |-> {0},
     mods |-> {},
     source |-> [k \in AltTabKeys |-> KC_NO],
     ev |-> [key |-> "none", pressed |-> FALSE, keycode |-> KC_NO, layer_on |-> FALSE],
     out |-> <<>>,
     ret |-> TRUE]

IS_LAYER_ON(a, layer) == layer \in a.layer_state

register_mods(a, mod) ==
    [a EXCEPT !.mods = @ \cup {mod}, !.out = Append(@, <<"register_mods", mod>>)]

unregister_mods(a, mod) ==
    [a EXCEPT !.mods = @ \ {mod}, !.out = Append(@, <<"unregister_mods", mod>>)]

AltTabTap(a, code) == [a EXCEPT !.out = Append(@, <<"tap_code16", code>>)]

disable_magic_layer_alt_tab(a) ==
    [unregister_mods(a, "LALT") EXCEPT !.alt_tab_running = FALSE]

process_record_magic_layer_alt_tab(a, keycode, record) ==
    LET is_alt_tab_key == keycode = "LALT_TAB" \/ keycode = "LSA_TAB"
        running == IF ~a.alt_tab_running
                   THEN [register_mods(a, "LALT") EXCEPT !.alt_tab_running = TRUE]
                   ELSE a
    IN  IF ~is_alt_tab_key \/ ~IS_LAYER_ON(a, MAGIC_LAYER_ALT_TAB_LAYER)
        THEN [(IF a.alt_tab_running /\ keycode # "KC_BTN1"
               THEN disable_magic_layer_alt_tab(a)
               ELSE a) EXCEPT !.ret = TRUE]
        ELSE [(IF record.pressed
               THEN IF keycode = "LALT_TAB" THEN AltTabTap(running, "KC_TAB")
                    ELSE IF keycode = "LSA_TAB" THEN AltTabTap(running, "LSFT_TAB")
                    ELSE running
               ELSE running) EXCEPT !.ret = FALSE]

\* variant: nothing is done after the event (AltReleasedWhenLeft tells it from
\* post_process_record_magic_layer_alt_tab)
PostProcessNothing(a, keycode, record) == a

post_process_record_magic_layer_alt_tab(a, keycode, record) ==
    IF a.alt_tab_running /\ ~IS_LAYER_ON(a, MAGIC_LAYER_ALT_TAB_LAYER)
    THEN disable_magic_layer_alt_tab(a)
    ELSE a

\* the keycode of an event: at a press the keycode of the highest layer that
\* is on and not transparent there, at a release the keycode of the press
AltTabKeycode(a, key, pressed) ==
    IF ~pressed THEN a.source[key]
    ELSE IF /\ IS_LAYER_ON(a, MAGIC_LAYER_ALT_TAB_LAYER)
            /\ AltTabKeymap(MAGIC_LAYER_ALT_TAB_LAYER, key) # KC_TRNS
         THEN AltTabKeymap(MAGIC_LAYER_ALT_TAB_LAYER, key)
         ELSE AltTabKeymap(0, key)

\* the host's own action for a keycode: MO(1) switches the layer
AltTabHostAction(a, keycode, pressed) ==
    IF keycode = "MO_1"
    THEN [a EXCEPT !.layer_state = IF pressed
                                   THEN @ \cup {MAGIC_LAYER_ALT_TAB_LAYER}
                                   ELSE @ \ {MAGIC_LAYER_ALT_TAB_LAYER}]
    ELSE a

\* the host processes a key event: the module's process_record hook, and, if
\* it returned true, the keycode's action and the module's post_process hook
AltTabEvent(a, key, pressed) ==
    LET keycode == AltTabKeycode(a, key, pressed)
        record == [key |-> key, pressed |-> pressed, keycode |-> keycode,
                   layer_on |-> IS_LAYER_ON(a, MAGIC_LAYER_ALT_TAB_LAYER)]
        start == [a EXCEPT !.source[key] = keycode, !.ev = record, !.out = <<>>]
        hooked == process_record_magic_layer_alt_tab(start, keycode, record)
    IN  IF hooked.ret
        THEN post_process_record_magic_layer_alt_tab(
                 AltTabHostAction(hooked, keycode, pressed), keycode, record)
        ELSE hooked

AltTabPress ==
    /\ nkeys < MaxKeyEvents
    /\ \E k \in keys \ down :
         /\ mlat' = AltTabEvent(mlat, k, TRUE)
         /\ down' = down \cup {k}
    /\ nkeys' = nkeys + 1
    /\ UNCHANGED <<st, sh, mode, keys, nticks, obs>>

AltTabRelease ==
    /\ nkeys < MaxKeyEvents
    /\ \E k \in keys \cap down :
         /\ mlat' = AltTabEvent(mlat, k, FALSE)
         /\ down' = down \ {k}
    /\ nkeys' = nkeys + 1
    /\ UNCHANGED <<st, sh, mode, keys, nticks, obs>>

\* the layer is switched off outside a key event (a timer of the host, or
\* housekeeping_task_predictive_tap_hold taking back an instant layer-tap)
AltTabLayerOff ==
    /\ nticks < MaxTicks
    /\ IS_LAYER_ON(mlat, MAGIC_LAYER_ALT_TAB_LAYER)
    /\ mlat' = [mlat EXCEPT !.layer_state = @ \ {MAGIC_LAYER_ALT_TAB_LAYER},
                            !.ev = [@ EXCEPT !.key = "none"],
                            !.out = <<>>]
    /\ nticks' = nticks + 1
    /\ UNCHANGED <<st, sh, mode, down, keys, nkeys, obs>>

NextAltTab == AltTabPress \/ AltTabRelease \/ AltTabLayerOff

\* --------------------------------------------------------- specifications
\* a keyboard right after start-up, any of the builds
Init ==
    /\ \E cfg \in Cfgs : st = Construct(cfg, StartTime)
    /\ sh = Construct(NoInstantCfg, StartTime)
    /\ mode = "single"
    /\ down = {}
    /\ keys = CoreKeys
    /\ nkeys = 0
    /\ nticks = 0
    /\ obs = NoObs
    /\ mlat = AltTabConstruct

Spec == Init /\ [][Next]_vars

\* two keyboards that get the same events and the same predictions: st holds
\* instantly (the default), sh never does
InitPair ==
    /\ st = Construct(DefaultCfg, StartTime)
    /\ sh = Construct(NoInstantCfg, StartTime)
    /\ mode = "pair"
    /\ down = {}
    /\ keys = CoreKeys
    /\ nkeys = 0
    /\ nticks = 0
    /\ obs = NoObs
    /\ mlat = AltTabConstruct

SpecPair == InitPair /\ [][Next]_vars

\* the state after a sequence of key events <<position, pressed>>
RECURSIVE RunKeys(_, _)
RunKeys(s, evs) ==
    IF s.crashed \/ evs = <<>> THEN s
    ELSE RunKeys(KeyEvent(s, Head(evs)[1], Head(evs)[2], NoPred), Tail(evs))

Presses(ks) == [i \in 1..Len(ks) |-> <<ks[i], TRUE>>]
Releases(ks) == [i \in 1..Len(ks) |-> <<ks[i], FALSE>>]

\* nine keys are down, the PTH key K is pressed, seven of the nine are
\* released: seven releases are in the release cache
InitCache ==
    /\ st = RunKeys(Construct(DefaultCfg, StartTime),
                    Presses(Fillers) \o <<(<<"K", TRUE>>)>> \o Releases(SubSeq(Fillers, 1, 7)))
    /\ sh = Construct(NoInstantCfg, StartTime)
    /\ mode = "single"
    /\ down = {"F8", "F9", "K"}
    /\ keys = {"F8", "F9", "K", "X"}
    /\ nkeys = 0
    /\ nticks = 0
    /\ obs = NoObs
    /\ mlat = AltTabConstruct

SpecCache == InitCache /\ [][Next]_vars

\* K is decided tap by the same-side key S, and seven more tap-hold keys are
\* pressed: seven positions are in the tap-release set
InitTapReleases ==
    /\ st = RunKeys(Construct(DefaultCfg, StartTime),
                    <<(<<"K", TRUE>>), (<<"S", TRUE>>)>> \o Presses(SubSeq(TapHolds, 1, 7)))
    /\ sh = Construct(NoInstantCfg, StartTime)
    /\ mode = "single"
    /\ down = {"K", "S"} \cup SeqSet(SubSeq(TapHolds, 1, 7))
    /\ keys = {"K", "H7", "H8", "H9"}
    /\ nkeys = 0
    /\ nticks = 0
    /\ obs = NoObs
    /\ mlat = AltTabConstruct

SpecTapReleases == InitTapReleases /\ [][Next]_vars

\* eight keys are down, the PTH key K is pressed, six of the eight are
\* released: six releases are in the release cache, and two more keys can
\* be released in either order
InitOrder ==
    /\ st = RunKeys(Construct(DefaultCfg, StartTime),
                    Presses(SubSeq(Fillers, 1, 8)) \o <<(<<"K", TRUE>>)>>
                        \o Releases(SubSeq(Fillers, 3, 8)))
    /\ sh = Construct(NoInstantCfg, StartTime)
    /\ mode = "single"
    /\ down = {"F1", "F2", "K"}
    /\ keys = {"F1", "F2", "K", "X"}
    /\ nkeys = 0
    /\ nticks = 0
    /\ obs = [NoObs EXCEPT !.pth = "K", !.lone = "K",
                           !.deferred = SeqSet(SubSeq(Fillers, 3, 8)),
                           !.cached = [i \in 1..6 |-> <<Fillers[i + 2], BEFORE_SECOND>>],
                           !.last = "release"]
    /\ mlat = AltTabConstruct

SpecOrder == InitOrder /\ [][Next]_vars

\* a keymap whose pth_get_code_to_be_registered_instead_when_hold_chosen
\* returns C(KC_C) for every key
InsteadCfg == [DefaultCfg EXCEPT !.instead = "C_KC_C"]

\* a keyboard right after start-up, the default build with or without the
\* replacement code
InitInstead ==
    /\ \E cfg \in {DefaultCfg, InsteadCfg} : st = Construct(cfg, StartTime)
    /\ sh = Construct(NoInstantCfg, StartTime)
    /\ mode = "single"
    /\ down = {}
    /\ keys = CoreKeys
    /\ nkeys = 0
    /\ nticks = 0
    /\ obs = NoObs
    /\ mlat = AltTabConstruct

SpecInstead == InitInstead /\ [][Next]_vars

\* keymaps whose pth_get_timeout_for_forcing_choice returns -1 (never force)
\* or 0 (decide at the press), with the default policy or one that chooses
\* tap, and one with timeout 0 and the fast-streak prediction
TimeoutCfgs ==
    {[DefaultCfg EXCEPT !.timeout = t, !.forced = f] : t \in {-1, 0}, f \in {"default", "tap"}}
        \cup {[StreakCfg EXCEPT !.timeout = 0]}

\* a keyboard right after start-up, one of the builds without the default timeout
InitTimeout ==
    /\ \E cfg \in TimeoutCfgs : st = Construct(cfg, StartTime)
    /\ sh = Construct(NoInstantCfg, StartTime)
    /\ mode = "single"
    /\ down = {}
    /\ keys = CoreKeys
    /\ nkeys = 0
    /\ nticks = 0
    /\ obs = NoObs
    /\ mlat = AltTabConstruct

SpecTimeout == InitTimeout /\ [][Next]_vars

\* a keyboard right after start-up, the default build, where the host also
\* gets events that are not for the module
InitGuards ==
    /\ st = Construct(DefaultCfg, StartTime)
    /\ sh = Construct(NoInstantCfg, StartTime)
    /\ mode = "single"
    /\ down = {}
    /\ keys = {"K", "S", "X"}
    /\ nkeys = 0
    /\ nticks = 0
    /\ obs = NoObs
    /\ mlat = AltTabConstruct

SpecGuards == InitGuards /\ [][NextGuards]_vars

\* a keymap whose pth_get_forced_choice_after_timeout chooses tap when the
\* timeout (700 ms) is reached
ForcedTapCfg == [DefaultCfg EXCEPT !.forced = "tap"]
\* a keymap whose pth_should_choose_tap_when_second_is_same_side_press
\* returns false
NoRollCfg == [DefaultCfg EXCEPT !.same_side_press = "never"]

InitForcedTap ==
    /\ \E cfg \in {ForcedTapCfg, NoRollCfg} : st = Construct(cfg, StartTime)
    /\ sh = Construct(NoInstantCfg, StartTime)
    /\ mode = "single"
    /\ down = {}
    /\ keys = CoreKeys
    /\ nkeys = 0
    /\ nticks = 0
    /\ obs = NoObs
    /\ mlat = AltTabConstruct

SpecForcedTap == InitForcedTap /\ [][Next]_vars

\* a keyboard that runs Magic Layer Alt-Tab, right after start-up
InitAltTab ==
    /\ st = Construct(DefaultCfg, StartTime)
    /\ sh = Construct(NoInstantCfg, StartTime)
    /\ mode = "single"
    /\ down = {}
    /\ keys = AltTabKeys
    /\ nkeys = 0
    /\ nticks = 0
    /\ obs = NoObs
    /\ mlat = AltTabConstruct

SpecAltTab == InitAltTab /\ [][NextAltTab]_vars

\* two keys are down, a PTH key is pressed (H1, a mod-tap of Left Alt, or K,
\* a mod-tap of Left Ctrl) and one of the two is released: one release is in
\* the release cache, and the decision is made with a second key of either
\* side, plain or tap-hold
InitCommit ==
    /\ \E pth \in {"H1", "K"} :
           /\ st = RunKeys(Construct(DefaultCfg, StartTime),
                           Presses(<<"F1", "F2">>) \o <<(<<pth, TRUE>>)>> \o Releases(<<"F1">>))
           /\ down = {"F2", pth}
           /\ obs = [NoObs EXCEPT !.pth = pth, !.lone = pth,
                                  !.deferred = {"F1"},
                                  !.cached = <<(<<"F1", BEFORE_SECOND>>)>>,
                                  !.last = "release"]
    /\ sh = Construct(NoInstantCfg, StartTime)
    /\ mode = "single"
    /\ keys = {"F2", "H1", "K", "L", "X"}
    /\ nkeys = 0
    /\ nticks = 0
    /\ mlat = AltTabConstruct

SpecCommit == InitCommit /\ [][Next]_vars

\* ------------------------------------------------------- a tick per millisecond
\* The housekeeping task runs once per millisecond while a decision is pending
\* (in Idle and after a decision it returns at once, and the time that passes
\* there has no part in the deadlines).
TickMs ==
    /\ ~st.crashed
    /\ st.pth_status \in {PTH_PRESSED, PTH_SECOND_PRESSED}
    /\ st' = TickBy(st, 1)
    /\ obs' = ObsAfter(ObsTick(st'), st', sh)
    /\ UNCHANGED <<sh, mode, down, keys, nkeys, nticks, mlat>>

\* the instants at which the typist acts, in milliseconds since the PTH press
\* while the status is Pressed and since the second key's press while it is
\* SecondPressed: at once, in between and in the last millisecond before the
\* deadline
PressedInstants == {0, 350, 699}
SecondPressedInstants == {0, 38, 231}

TypistActs ==
    CASE st.pth_status = PTH_PRESSED ->
             TIMER_DIFF_16(st.timer, st.pth_press_timer) \in PressedInstants
      [] st.pth_status = PTH_SECOND_PRESSED ->
             TIMER_DIFF_16(st.timer, st.second_press_timer) \in SecondPressedInstants
      [] OTHER -> TRUE

LivePress == TypistActs /\ KeyPress
LiveRelease == TypistActs /\ KeyRelease

NextLive == LivePress \/ LiveRelease \/ TickMs

\* the default build right after start-up; the typist touches the same-side
\* pair K, L and the opposite-side key X
InitLive ==
    /\ st = Construct(DefaultCfg, StartTime)
    /\ sh = Construct(NoInstantCfg, StartTime)
    /\ mode = "single"
    /\ down = {}
    /\ keys = {"K", "L", "X"}
    /\ nkeys = 0
    /\ nticks = 0
    /\ obs = NoObs
    /\ mlat = AltTabConstruct

\* the guard of TickMs: a TickMs step is possible
TickMsEnabled == ~st.crashed /\ st.pth_status \in {PTH_PRESSED, PTH_SECOND_PRESSED}

\* The main loop calls the housekeeping task in every iteration: weak fairness
\* of the tick, WF_vars(TickMs), written out with the guard of TickMs.
SpecLive ==
    /\ InitLive
    /\ [][NextLive]_vars
    /\ ([]<>(~TickMsEnabled) \/ []<><<TickMs>>_vars)

\* builds with PTH_RESET_IMMEDIATELY_WHEN_TAP_CHOSEN and a keymap whose
\* timeout is 0 and whose forced choice is tap, with and without instant hold
ForcedResetCfg == [DefaultCfg EXCEPT !.reset_immediately = TRUE, !.timeout = 0, !.forced = "tap"]
ForcedResetCfgs == {ForcedResetCfg, [ForcedResetCfg EXCEPT !.hold_instantly = "never"]}

InitForcedReset ==
    /\ \E cfg \in ForcedResetCfgs : st = Construct(cfg, StartTime)
    /\ sh = Construct(NoInstantCfg, StartTime)
    /\ mode = "single"
    /\ down = {}
    /\ keys = CoreKeys
    /\ nkeys = 0
    /\ nticks = 0
    /\ obs = NoObs
    /\ mlat = AltTabConstruct

SpecForcedReset == InitForcedReset /\ [][Next]_vars

\* a keyboard on which the tap-hold key L is still down, registered as hold:
\* K was pressed, L was pressed as the second key (pressed), the press of X
\* has decided hold, its prediction being hold (decided), and K and X have
\* been released
InitRepress ==
    /\ \E cfg \in {DefaultCfg, NoInstantCfg} :
         \E pressed \in {RunKeys(Construct(cfg, StartTime), Presses(<<"K", "L">>))} :
           \E decided \in {KeyEvent(pressed, "X", TRUE, [NoPred EXCEPT !.hold = TRUE])} :
             st = RunKeys(decided, Releases(<<"K", "X">>))
    /\ sh = Construct(NoInstantCfg, StartTime)
    /\ mode = "single"
    /\ down = {"L"}
    /\ keys = {"K", "L", "X"}
    /\ nkeys = 0
    /\ nticks = 0
    /\ obs = [NoObs EXCEPT !.pth = "K", !.predhold = TRUE, !.last = "release"]
    /\ mlat = AltTabConstruct

SpecRepress == InitRepress /\ [][Next]_vars

\* ------------------------------------------------------------ properties
\* the entries of the sink's trace that come from position pos
KeyOut(s, pos) == SelectSeq(s.out, LAMBDA e : e.pos = pos)
\* the same, as <<op, how>> pairs
OpsOf(s, pos) == [i \in 1..Len(KeyOut(s, pos)) |-> <<KeyOut(s, pos)[i].op, KeyOut(s, pos)[i].how>>]
\* the places of the trace that hold an entry of position pos with operation op
Places(s, pos, op) == {i \in 1..Len(s.out) : s.out[i].pos = pos /\ s.out[i].op = op}
\* what the hold action of the tap-hold key at pos leaves registered
HoldResidue(s, pos) ==
    \/ QK_MOD_TAP_GET_MODS(Keymap(0, pos)) \cap s.registered # {}
    \/ IS_QK_LAYER_TAP(Keymap(0, pos)) /\ QK_LAYER_TAP_GET_LAYER(Keymap(0, pos)) \in s.layer_state

\* C1: a tap-hold key pressed in Idle and released with no other key pressed in
\* between and before the forced-choice timeout is a tap: right after its
\* release the sink has seen exactly one register-as-tap and then one
\* unregister-as-tap of it, preceded by the register and unregister of its
\* instant hold if there was one; its hold is not registered and the status is
\* Idle.
LoneTapIsTap ==
    obs.tapped # "none" =>
        /\ OpsOf(st, obs.tapped) \in
               {<<(<<"reg", "tap">>), (<<"unreg", "tap">>)>>,
                <<(<<"reg", "hold">>), (<<"unreg", "hold">>),
                  (<<"reg", "tap">>), (<<"unreg", "tap">>)>>}
        /\ ~HoldResidue(st, obs.tapped)
        /\ st.pth_status = PTH_IDLE

\* C1 happens: K was held instantly and then tapped
LoneTapSeen ==
    /\ obs.tapped = "K"
    /\ Len(KeyOut(st, "K")) = 4
    /\ st.pth_prev_status = PTH_DECIDED_TAP

\* the places of the trace where the tap-hold key at pos is registered or
\* unregistered (op) as tap
TapPlaces(s, pos, op) == {i \in Places(s, pos, op) : s.out[i].how = "tap"}

\* C2: a key that was down when the tap-hold key was pressed and is released
\* while the status is Pressed is not unregistered at its release; once the
\* tap-hold key is resolved as tap the sink has seen the tap-hold key's
\* register-as-tap, then the key's unregister, then the tap-hold key's
\* unregister-as-tap.
DeferredReleaseInOrder ==
    \A m \in obs.deferred :
        /\ st.pth_status = PTH_PRESSED => Places(st, m, "unreg") = {}
        /\ TapPlaces(st, obs.pth, "reg") # {} =>
               \E j \in Places(st, m, "unreg") :
                   /\ \A i \in TapPlaces(st, obs.pth, "reg") : i < j
                   /\ \A u \in TapPlaces(st, obs.pth, "unreg") : j < u

\* C2 happens: S was released while K was Pressed, and K was tapped
DeferredReleaseSeen ==
    /\ obs.pth = "K"
    /\ "S" \in obs.deferred
    /\ TapPlaces(st, "K", "unreg") # {}
    /\ Places(st, "S", "unreg") # {}

\* C3: when the second key is on the opposite side, is not tap-hold and was
\* released before min_overlap_dur_for_hold had passed since its press, the
\* tap-hold key is not decided hold (here: as long as no prediction function
\* has returned hold), neither by a housekeeping tick nor by its release.
FastRollIsNotHold ==
    obs.fastroll /\ ~obs.predhold => st.pth_status # PTH_DECIDED_HOLD

\* the second key is on the opposite side, is not tap-hold and has been down
\* together with the tap-hold key since its press, no third key was pressed,
\* and min_overlap_dur_for_hold has passed since the second key's press
LongOverlap ==
    /\ st.has_second
    /\ ~st.second_is_same_side_as_pth
    /\ ~st.second_is_tap_hold
    /\ ~st.second_to_be_released
    /\ {st.pth_record.key, st.second_record.key} \subseteq down
    /\ st.cur_press_keycode = st.second_keycode
    /\ TIMER_DIFF_16(st.timer, st.second_press_timer) >= st.min_overlap_dur_for_hold

\* the sink has seen the second key's register after the tap-hold key's
\* register as hold
SecondAfterHold(s) ==
    \E i \in Places(s, s.pth_record.key, "reg") :
        /\ s.out[i].how = "hold"
        /\ \E j \in Places(s, s.second_record.key, "reg") : i < j

\* C4: in SecondPressed with a second key on the opposite side that is not
\* tap-hold and is still down, a housekeeping tick at which the time since
\* the second key's press has reached min_overlap_dur_for_hold makes the
\* status DecidedHold, and the sink has then seen the second key's register
\* after the tap-hold key's register as hold.
LongOverlapIsHold ==
    [][(/\ nticks' = nticks + 1
        /\ st.pth_status = PTH_SECOND_PRESSED
        /\ ~st.second_is_same_side_as_pth
        /\ ~st.second_is_tap_hold
        /\ ~st.second_to_be_released
        /\ TIMER_DIFF_16(st'.timer, st.second_press_timer) >= st.min_overlap_dur_for_hold)
       => (st'.pth_status = PTH_DECIDED_HOLD /\ SecondAfterHold(st'))]_vars

\* C4 happens: K and X overlap for long enough and a tick decides hold
LongOverlapSeen ==
    /\ obs.last = "tick"
    /\ LongOverlap
    /\ st.pth_record.key = "K"
    /\ st.second_record.key = "X"
    /\ st.pth_status = PTH_DECIDED_HOLD
    /\ SecondAfterHold(st)

\* both keyboards of a paired run have decided the tap-hold key as tap and
\* have seen its release, and neither has decided hold before
BothTapped ==
    /\ mode = "pair"
    /\ ~obs.held
    /\ obs.pth # "none"
    /\ obs.pth \notin down
    /\ st.pth_status = PTH_IDLE /\ st.pth_prev_status = PTH_DECIDED_TAP
    /\ sh.pth_status = PTH_IDLE /\ sh.pth_prev_status = PTH_DECIDED_TAP

NestedCallsAreGuarded == ~st.nested_ran

\* a key other than the tap-hold key and the second key is released while
\* releases are cached and every slot of the release cache is in use
OverflowStep ==
    /\ nkeys' = nkeys + 1
    /\ down' # down /\ down' \subseteq down
    /\ st.pth_status \in {PTH_PRESSED, PTH_SECOND_PRESSED}
    /\ st.used_release_records_bitmask = 2 ^ RELEASE_RECORD_SIZE - 1
    /\ st.pth_record.key \in down'
    /\ st.pth_status = PTH_SECOND_PRESSED => st.second_record.key \notin down \ down'

\* C7: a release that is to be cached while all slots are in use is emitted
\* at once and exactly once, the cache is left as it was, and the keyboard
\* keeps working.
OverflowIsEmittedOnce ==
    [][OverflowStep =>
          /\ ~st'.crashed
          /\ \A k \in down \ down' : Cardinality(Places(st', k, "unreg")) = 1
          /\ st'.release_records = st.release_records
          /\ st'.used_release_records_bitmask = st.used_release_records_bitmask
          /\ st'.is_before_second_bitmask = st.is_before_second_bitmask]_vars

\* C8: while no release is being cached, the tap keycode of a tap-hold key
\* that is not down is not registered, also when the key was committed as tap
\* with the tap-release set full.
ReleasedTapHoldIsUnregistered ==
    st.pth_status \notin {PTH_PRESSED, PTH_SECOND_PRESSED} =>
        \A h \in TapHoldSet \ down : TapKeycode(Keymap(0, h)) \notin st.registered

\* the durations the prediction functions read
PredictorDurations(s) ==
    {s.pth_prev_prev_press_to_prev_press_dur, s.pth_prev_press_to_pth_press_dur,
     s.pth_prev_prev_overlap_dur, s.pth_prev_overlap_dur,
     s.key_release_before_pth_to_pth_press_dur, s.pth_press_to_second_press_dur,
     s.pth_press_to_second_release_dur, s.pth_second_dur,
     s.pth_second_press_to_third_press_dur}

\* C9: while a tap-hold key is being resolved, every duration the prediction
\* functions read is in 0..MS_MAX_DUR_FOR_TIMERS, for the first keys after
\* start-up and after the timer has wrapped as well.
DurationsInRange ==
    st.pth_status # PTH_IDLE => PredictorDurations(st) \subseteq 0..MS_MAX_DUR_FOR_TIMERS

\* the status is Idle exactly if there is no PTH keycode and no PTH position
IdleIffNoPth(s) ==
    /\ s.pth_status = PTH_IDLE <=> s.pth_keycode = KC_NO
    /\ s.pth_status = PTH_IDLE <=> s.pth_record.key = EMPTY_KEYPOS

\* C10: after every key event and every tick the status is Idle exactly if
\* pth_keycode is KC_NO and the position of pth_record is the empty one; and
\* as long as the status is not Idle the PTH key stays the same, whatever
\* tap-hold key is pressed.
OnePthAtATime ==
    /\ []IdleIffNoPth(st)
    /\ [][st.pth_status # PTH_IDLE /\ st'.pth_status # PTH_IDLE =>
              /\ st'.pth_record.key = st.pth_record.key
              /\ st'.pth_keycode = st.pth_keycode]_vars

\* C10 happens: the tap-hold key L was pressed while K was the PTH key
OnePthAtATimeSeen ==
    /\ st.pth_status = PTH_SECOND_PRESSED
    /\ st.pth_record.key = "K"
    /\ st.second_record.key = "L"
    /\ st.second_is_tap_hold

\* the step is the release of the PTH key, received in a status that is not Idle
PthReleaseStep ==
    /\ st.pth_status # PTH_IDLE
    /\ nkeys' = nkeys + 1
    /\ st.pth_record.key \in down
    /\ down' = down \ {st.pth_record.key}

\* the state of one PTH is cleared and the release cache holds nothing
PerPthStateCleared(s) ==
    /\ s.pth_status = PTH_IDLE
    /\ ~s.has_second
    /\ s.second_keycode = KC_NO
    /\ ~s.pth_was_held_instantly
    /\ ~s.second_was_held_instantly
    /\ s.min_overlap_dur_for_hold = 0
    /\ ~s.second_to_be_released
    /\ ~s.has_chosen_after_timeout_reached
    /\ s.used_release_records_bitmask = 0

\* C11: the release of the PTH key, received in Pressed, SecondPressed,
\* DecidedTap or DecidedHold, ends in Idle with no second key, both
\* instant-hold flags false, min_overlap_dur_for_hold 0, second_to_be_released
\* and the forced-choice flag false, and an empty release cache.
PthReleaseResets ==
    [][PthReleaseStep => PerPthStateCleared(st')]_vars

\* C11 happens: the PTH key was released after the second key X was pressed
\* and the decision was hold
PthReleaseResetsSeen ==
    /\ obs.last = "release"
    /\ obs.pth # "none" /\ obs.pth \notin down
    /\ st.pth_status = PTH_IDLE
    /\ st.pth_prev_status = PTH_DECIDED_HOLD
    /\ Places(st, "X", "reg") # {}

\* the place in the trace of the first unregister of position pos since the
\* PTH's press (0 if there is none): for a key whose release was cached, the
\* place where the cached release came out
FirstUnreg(s, pos) ==
    IF Places(s, pos, "unreg") = {} THEN 0
    ELSE CHOOSE a \in Places(s, pos, "unreg") : \A b \in Places(s, pos, "unreg") : a <= b

\* the cached releases i and j of one partition came out in the order i, j
EmittedInOrder(s, i, j) ==
    FirstUnreg(s, obs.cached[j][1]) # 0 =>
        /\ FirstUnreg(s, obs.cached[i][1]) # 0
        /\ FirstUnreg(s, obs.cached[i][1]) < FirstUnreg(s, obs.cached[j][1])

\* C12: the cached releases of one partition are emitted in the order in
\* which they arrived, all of them when the decision has been made.
CachedReleasesInOrder ==
    /\ \A i, j \in 1..Len(obs.cached) :
           i < j /\ obs.cached[i][2] = obs.cached[j][2] => EmittedInOrder(st, i, j)
    /\ st.pth_status \notin {PTH_PRESSED, PTH_SECOND_PRESSED} =>
           \A i \in 1..Len(obs.cached) : FirstUnreg(st, obs.cached[i][1]) # 0

\* C12 happens: with six releases cached, F2 and then F1 were released
\* before K, and the eight releases have been emitted
CachedReleasesInOrderSeen ==
    /\ Len(obs.cached) = RELEASE_RECORD_SIZE
    /\ obs.cached[7][1] = "F2" /\ obs.cached[8][1] = "F1"
    /\ st.pth_status = PTH_IDLE
    /\ \A i \in 1..Len(obs.cached) : FirstUnreg(st, obs.cached[i][1]) # 0

\* in the trace of s, a release cached before the second key's press has come
\* out after a register of the second key
BeforeSecondAfterRegister(s) ==
    \E i \in 1..Len(obs.cached) :
        /\ obs.cached[i][2] = BEFORE_SECOND
        /\ FirstUnreg(s, obs.cached[i][1]) # 0
        /\ \E r \in Places(s, st.second_record.key, "reg") :
               r < FirstUnreg(s, obs.cached[i][1])

TimeoutTick ==
    /\ nticks' = nticks + 1
    /\ st.cfg.timeout = DefaultTimeout
    /\ st.cfg.forced = "default"
    /\ st.pth_status \in {PTH_PRESSED, PTH_SECOND_PRESSED}
    /\ TIMER_DIFF_16(st'.timer, st.pth_press_timer) >= DefaultTimeout

\* the step is the release of the PTH key after a forced choice of hold
ForcedHoldRelease ==
    /\ PthReleaseStep
    /\ st.pth_status = PTH_DECIDED_HOLD
    /\ st.has_chosen_after_timeout_reached

\* C14: with the default timeout and policy, the first tick that finds 700 ms
\* or more passed since the press of a PTH with no second key makes the
\* status DecidedHold, with the hold registered once (at the press if held
\* instantly, at this tick if not); the PTH's release then emits the hold's
\* unregister and ends in Idle; and with a second key pressed the forced
\* choice changes neither the status nor what is registered.
ForcedChoiceOnTimeout ==
    /\ [][TimeoutTick /\ st.pth_status = PTH_PRESSED =>
              /\ st'.pth_status = PTH_DECIDED_HOLD
              /\ OpsOf(st', st.pth_record.key) = <<(<<"reg", "hold">>)>>
              /\ QK_MOD_TAP_GET_MODS(st.pth_keycode) \subseteq st'.registered
              /\ IS_QK_LAYER_TAP(st.pth_keycode) =>
                     QK_LAYER_TAP_GET_LAYER(st.pth_keycode) \in st'.layer_state]_vars
    /\ [][ForcedHoldRelease =>
              /\ st'.pth_status = PTH_IDLE
              /\ st'.out = Append(st.out, [op |-> "unreg", pos |-> st.pth_record.key,
                                           how |-> "hold", kc |-> st.pth_keycode])]_vars
    /\ [][(/\ TimeoutTick
           /\ st.pth_status = PTH_SECOND_PRESSED
           /\ ~st.has_chosen_after_timeout_reached
           /\ st'.has_chosen_after_timeout_reached) =>
              /\ st'.pth_status = PTH_SECOND_PRESSED
              /\ st'.out = st.out
              /\ st'.registered = st.registered
              /\ st'.layer_state = st.layer_state]_vars

\* C14 happens: a tick has forced hold on a PTH key that was not held
\* instantly and has no second key
ForcedChoiceOnTimeoutSeen ==
    /\ obs.last = "tick"
    /\ st.pth_status = PTH_DECIDED_HOLD
    /\ st.has_chosen_after_timeout_reached
    /\ ~st.has_second
    /\ ~st.pth_was_held_instantly

\* C15: with a negative timeout the forced-choice policy is never invoked
\* (has_chosen_after_timeout_reached, set on its invocation, stays false), and
\* no tick decides for a PTH key that is pressed alone, however long it has
\* been held.
NegativeTimeoutNeverForces ==
    /\ [](st.cfg.timeout < 0 => ~st.has_chosen_after_timeout_reached)
    /\ [][st.cfg.timeout < 0 /\ nticks' = nticks + 1 /\ st.pth_status = PTH_PRESSED =>
              /\ st'.pth_status = PTH_PRESSED
              /\ st'.out = st.out
              /\ st'.registered = st.registered]_vars

\* C15 happens: a tick has found a PTH key with a negative timeout held alone
\* for longer than the default timeout, and longer than the timers can measure
NegativeTimeoutNeverForcesSeen ==
    /\ obs.last = "tick"
    /\ st.cfg.timeout < 0
    /\ st.pth_status = PTH_PRESSED
    /\ st.pth_record.key \in down
    /\ st.pth_press_timer_max_reached

\* the step is the press, in Idle, of a key whose keycode is a tap-hold one
IdlePthPress ==
    /\ st.pth_status = PTH_IDLE
    /\ nkeys' = nkeys + 1
    /\ \E k \in down' \ down : pth_is_tap_hold_keycode(Keymap(layer_switch_get_layer(st, k), k))

\* the forced-choice policy was invoked in the press event and its choice made:
\* hold (registered by the decision, not as an instant hold) or tap
ForcedAtPress ==
    /\ st'.has_chosen_after_timeout_reached
    /\ st'.pth_status = IF st.cfg.forced = "tap" THEN PTH_DECIDED_TAP ELSE PTH_DECIDED_HOLD
    /\ ~st'.pth_was_held_instantly
    /\ OpsOf(st', st'.pth_record.key) =
           <<(<<"reg", IF st.cfg.forced = "tap" THEN "tap" ELSE "hold">>)>>

ThirdPressStep(k) ==
    /\ st.pth_status = PTH_SECOND_PRESSED
    /\ nkeys' = nkeys + 1
    /\ k \in down' \ down

\* the status after a third press for which the third-press predictor returned hold
ThirdPressStatus(hold) ==
    IF hold THEN PTH_DECIDED_HOLD
    ELSE IF st.cfg.reset_immediately THEN PTH_IDLE ELSE PTH_DECIDED_TAP

\* what the step has emitted for position pos: places of the sink's trace
NewPlaces(pos, op) == Places(st', pos, op) \ (1..Len(st.out))

\* the PTH key and the second key have their registers in the trace, and the
\* register that the step emits for the third key k is the last entry of the
\* trace (a register of k before it is that of k as the second key)
ThirdRegisterLast(k) ==
    /\ Len(st'.out) > Len(st.out)
    /\ SubSeq(st'.out, 1, Len(st.out)) = st.out
    /\ \E i \in 1..(Len(st'.out) - 1) :
           /\ st'.out[i].op = "reg"
           /\ st'.out[i].pos = st.pth_record.key \/ st'.out[i].how = "code"
    /\ \E j \in Places(st', st.second_record.key, "reg") : j < Len(st'.out)
    /\ NewPlaces(k, "reg") \ {Len(st'.out)} # {} => k = st.second_record.key
    /\ Keymap(layer_switch_get_layer(st', k), k) \notin {KC_NO, KC_TRNS} =>
           Len(st'.out) \in NewPlaces(k, "reg")

\* C17: a key press while the status is SecondPressed always decides: the
\* status becomes DecidedHold when pth_predict_hold_when_third_press returned
\* hold and DecidedTap (Idle in a build that resets immediately) when it did
\* not, never SecondPressed; and the third key's register is emitted after
\* the registers and releases of the commit.
ThirdPressDecides ==
    [][\A k \in keys : ThirdPressStep(k) =>
           /\ st'.pth_status # PTH_SECOND_PRESSED
           /\ \A p \in PredSet(st, k, TRUE) :
                  st' = KeyEvent(st, k, TRUE, p) => st'.pth_status = ThirdPressStatus(p.hold)
           /\ ThirdRegisterLast(k)]_vars

\* C17 happens: a third key was pressed, tap was chosen for a PTH key that
\* was held instantly, and the third key's register is the last entry of the
\* trace, after the rollback of the hold and the registers of PTH and second
ThirdPressDecidesSeen ==
    /\ obs.last = "press"
    /\ st.has_second
    /\ st.pth_status = PTH_DECIDED_TAP
    /\ Len(st.out) >= 5
    /\ st.out[Len(st.out)].op = "reg"
    /\ st.out[Len(st.out)].pos \notin {st.pth_record.key, st.second_record.key}

\* the places of the sink's trace where the replacement code is registered
\* (op = "reg") or unregistered (op = "unreg")
CodePlaces(s, op) == {i \in 1..Len(s.out) : s.out[i].how = "code" /\ s.out[i].op = op}

\* hold was chosen for the PTH key obs.pth, which is still down
HoldChosen == st.pth_status = PTH_DECIDED_HOLD

\* hold was chosen for the PTH key obs.pth, which has been released since
HoldReleased ==
    /\ st.pth_status = PTH_IDLE
    /\ st.pth_prev_status = PTH_DECIDED_HOLD
    /\ obs.pth \notin down

\* C18: in a build with a replacement code, from the press of a PTH key on:
\* the key is not held instantly and its own hold action is never registered;
\* the replacement code is registered once if hold is chosen and never
\* otherwise (tap chosen, or no choice yet); and it is unregistered once,
\* by the release of the PTH key, and never before.
ReplacementCodeOnHold ==
    /\ [](st.cfg.instead # KC_NO /\ obs.pth # "none" =>
             /\ ~st.pth_was_held_instantly
             /\ \A i \in Places(st, obs.pth, "reg") : st.out[i].how # "hold"
             /\ \A i \in CodePlaces(st, "reg") \cup CodePlaces(st, "unreg") :
                    st.out[i].kc = st.cfg.instead
             /\ Cardinality(CodePlaces(st, "reg")) = IF HoldChosen \/ HoldReleased THEN 1 ELSE 0
             /\ Cardinality(CodePlaces(st, "unreg")) = IF HoldReleased THEN 1 ELSE 0)
    /\ [][PthReleaseStep /\ st.cfg.instead # KC_NO /\ st'.pth_prev_status = PTH_DECIDED_HOLD =>
              /\ CodePlaces(st, "unreg") = {}
              /\ CodePlaces(st', "unreg") = {Len(st'.out)}]_vars

\* C18 happens: hold was chosen for a PTH key with a replacement code while a
\* second key was pressed, and the PTH key has just been released
ReplacementCodeOnHoldSeen ==
    /\ st.cfg.instead # KC_NO
    /\ obs.pth # "none"
    /\ obs.last = "release"
    /\ HoldReleased
    /\ Places(st, "X", "reg") # {}
    /\ Cardinality(CodePlaces(st, "unreg")) = 1

\* what the step has written to the sink (the trace starts anew at the press
\* of a PTH key)
StepOut ==
    IF Len(st'.out) >= Len(st.out) /\ SubSeq(st'.out, 1, Len(st.out)) = st.out
    THEN SubSeq(st'.out, Len(st.out) + 1, Len(st'.out))
    ELSE st'.out

\* the entries of the step for position pos, as <<op, how>> pairs
StepOps(pos) ==
    LET o == SelectSeq(StepOut, LAMBDA e : e.pos = pos)
    IN  [i \in 1..Len(o) |-> <<o[i].op, o[i].how>>]

\* the step has registered the tap-hold key k as tap, k is down after it and
\* is not the PTH key
RegisteredAsTapWhileDown(k) ==
    /\ k \in down'
    /\ k \notin {st.pth_record.key, st'.pth_record.key}
    /\ \E i \in 1..Len(StepOut) :
           /\ StepOut[i].pos = k
           /\ StepOut[i].op = "reg"
           /\ StepOut[i].how = "tap"
           /\ pth_is_tap_hold_keycode(StepOut[i].kc)

\* the used slots of the release cache that hold a release of k marked as tap
CachedAsTap(s, k) ==
    {i \in 0..(RELEASE_RECORD_SIZE - 1) :
        /\ Bit(s.used_release_records_bitmask, i) = 1
        /\ s.release_records[i].key = k
        /\ s.release_records[i].count = 1}

\* the step is the release of k, whose position is in the tap-release set
TrackedRelease(k) ==
    /\ nkeys' = nkeys + 1
    /\ k \in down \ down'
    /\ TapReleaseSlots(st, k) # {}

\* the release of a tracked key: the position leaves the set; outside a
\* decision the unregister-as-tap is emitted at once and the event consumed,
\* during one the release is cached as a tap release and nothing is emitted
TrackedReleaseIsTap(k) ==
    /\ TapReleaseSlots(st', k) = {}
    /\ st.pth_status \notin {PTH_PRESSED, PTH_SECOND_PRESSED} =>
           /\ StepOut = <<[op |-> "unreg", pos |-> k, how |-> "tap", kc |-> StepOut[1].kc]>>
           /\ ~st'.ret
    /\ st.pth_status \in {PTH_PRESSED, PTH_SECOND_PRESSED} =>
           /\ StepOps(k) = <<>>
           /\ Cardinality(CachedAsTap(st', k)) = Cardinality(CachedAsTap(st, k)) + 1

\* the tracking of position k over a step: once in the tap-release set, k
\* stays in it while it is down; its release takes it out of the set and is an
\* unregister-as-tap, emitted at once or cached; and a cached tap release
\* leaves the cache as an unregister-as-tap, the first thing the step emits
\* for the key
TrackedUntilReleased(k) ==
    /\ k \in down /\ k \in down' /\ TapReleaseSlots(st, k) # {} => TapReleaseSlots(st', k) # {}
    /\ TrackedRelease(k) => TrackedReleaseIsTap(k)
    /\ CachedAsTap(st, k) # {} /\ CachedAsTap(st', k) = {} =>
           /\ StepOps(k) # <<>>
           /\ StepOps(k)[1] = <<"unreg", "tap">>

DecidedPress(k) ==
    /\ st.pth_status \in {PTH_DECIDED_TAP, PTH_DECIDED_HOLD}
    /\ nkeys' = nkeys + 1
    /\ k \in down' \ down
    /\ pth_is_tap_hold_keycode(Keymap(layer_switch_get_layer(st, k), k))

\* the key pressed after the decision is taken as hold: the PTH is decided
\* hold and the key is on its side (the default same-side policy approves)
ClassifiedAsHold(k) ==
    /\ st.pth_status = PTH_DECIDED_HOLD
    /\ is_record_same_side_as_pth(st, Record(k, TRUE, 0))

\* what the tap-release set holds after k has been added to it: k, if a slot
\* was free
AddedToTapReleases(k) ==
    IF st.used_release_as_tap_positions_bitmask = 2 ^ RELEASE_AS_TAP_POSITIONS_SIZE - 1
    THEN /\ st'.used_release_as_tap_positions_bitmask = st.used_release_as_tap_positions_bitmask
         /\ st'.release_as_tap_positions = st.release_as_tap_positions
    ELSE TapReleaseSlots(st', k) # {}

\* C20: the press of a tap-hold key after the decision emits one register for
\* it and nothing else: as hold, with the tap-release set unchanged, if the
\* PTH is decided hold and the key is on its side; as tap otherwise, with the
\* key added to the tap-release set.  The status stays what it was and the
\* dispatcher returns false.
DecidedPressIsClassified ==
    [][\A k \in keys : DecidedPress(k) =>
           /\ st'.pth_status = st.pth_status
           /\ st'.pth_record.key = st.pth_record.key
           /\ ~st'.ret
           /\ StepOut = <<[op |-> "reg", pos |-> k,
                           how |-> IF ClassifiedAsHold(k) THEN "hold" ELSE "tap",
                           kc |-> Keymap(layer_switch_get_layer(st, k), k)]>>
           /\ IF ClassifiedAsHold(k)
              THEN /\ st'.used_release_as_tap_positions_bitmask =
                          st.used_release_as_tap_positions_bitmask
                   /\ st'.release_as_tap_positions = st.release_as_tap_positions
              ELSE AddedToTapReleases(k)]_vars

\* C20 happens: with the PTH key K decided hold the layer-tap key L, on K's
\* side, has been pressed and registered as hold
DecidedPressIsClassifiedSeen ==
    /\ obs.last = "press"
    /\ st.pth_status = PTH_DECIDED_HOLD
    /\ st.pth_record.key = "K"
    /\ "L" \in down
    /\ st.out[Len(st.out)] = [op |-> "reg", pos |-> "L", how |-> "hold", kc |-> Keymap(0, "L")]
    /\ TapReleaseSlots(st, "L") = {}

\* no decision is pending in s
NotPending(s) == s.pth_status \notin {PTH_PRESSED, PTH_SECOND_PRESSED}

\* the step is an event of key k received while no decision is pending, the
\* press of a tap-hold key in Idle (which opens a decision) apart
EventOutsideDecision(k) ==
    /\ NotPending(st)
    /\ nkeys' = nkeys + 1
    /\ k \in (down' \ down) \cup (down \ down')
    /\ ~IdlePthPress

\* C21: whenever the status is Idle, DecidedTap or DecidedHold the release
\* cache is empty; and an event received in one of these states, other than
\* the press that opens a decision, is passed through (the dispatcher returns
\* true) or emitted within the step (for its key, or as the replacement code
\* of the PTH key), and leaves the cache empty.
NothingDeferredOutsideDecision ==
    /\ [](NotPending(st) => st.used_release_records_bitmask = 0)
    /\ [][\A k \in Positions : EventOutsideDecision(k) =>
              /\ \/ st'.ret
                 \/ \E i \in 1..Len(StepOut) : StepOut[i].pos = k \/ StepOut[i].how = "code"
              /\ st'.used_release_records_bitmask = 0
              /\ NotPending(st')]_vars

\* C21 happens: after a hold decision that has flushed a cached release, a
\* key was released in DecidedHold and its unregister emitted at once
NothingDeferredOutsideDecisionSeen ==
    /\ obs.last = "release"
    /\ st.pth_status = PTH_DECIDED_HOLD
    /\ obs.deferred # {}
    /\ st.has_second
    /\ st.second_record.key \notin down
    /\ st.out[Len(st.out)].op = "unreg"
    /\ st.out[Len(st.out)].pos = st.second_record.key

\* the used slots of the release cache
UsedRecords(s) ==
    {i \in 0..(RELEASE_RECORD_SIZE - 1) : Bit(s.used_release_records_bitmask, i) = 1}

\* the press of key k is at the sink: what its keycode registers, as tap or
\* as hold, is registered (a keycode that registers nothing has no press to emit)
PressAtSink(s, k) ==
    \/ RecordKeycode(s, k) \in {KC_NO, KC_TRNS}
    \/ \E how \in {"tap", "hold"} :
           /\ ActionCodes(RecordKeycode(s, k), how) \cup ActionLayers(RecordKeycode(s, k), how) # {}
           /\ ActionCodes(RecordKeycode(s, k), how) \subseteq s.registered
           /\ ActionLayers(RecordKeycode(s, k), how) \subseteq s.layer_state

\* C22: every record in the release cache is a release, of a key other than
\* the PTH key, whose press is at the sink; and a step that stores a record
\* stores the release of the key released in that step, which is neither the
\* PTH key nor the second key of the pending decision.
CacheHoldsEmittedKeys ==
    /\ [](~st.crashed =>
            \A i \in UsedRecords(st) :
                /\ ~st.release_records[i].pressed
                /\ st.release_records[i].key \in Positions
                /\ st.release_records[i].key # st.pth_record.key
                /\ PressAtSink(st, st.release_records[i].key))
    /\ [][~st'.crashed =>
            \A i \in UsedRecords(st') \ UsedRecords(st) :
                /\ st'.release_records[i].key \in down \ down'
                /\ st'.release_records[i].key # st.pth_record.key
                /\ st.pth_status = PTH_SECOND_PRESSED =>
                       st'.release_records[i].key # st.second_record.key]_vars

\* C22 happens: with a second key pressed and not registered, the release of
\* a key pressed before the PTH key is in the cache, and the second key has
\* been released without its release being stored
CacheHoldsEmittedKeysSeen ==
    /\ st.pth_status = PTH_SECOND_PRESSED
    /\ ~st.second_was_held_instantly
    /\ st.second_to_be_released
    /\ UsedRecords(st) # {}
    /\ \A i \in UsedRecords(st) : st.release_records[i].key \in FillerSet

\* the module's statics in s: s without the host's registered codes, layers,
\* source layers and trace, without what the sink has of each key, and
\* without the dispatcher's return value
PthState(s) ==
    [s EXCEPT !.ret = TRUE, !.registered = {}, !.layer_state = {}, !.out = <<>>,
              !.source_layer = [p \in Positions |-> 0],
              !.sunk = [p \in Positions |-> {}], !.unpaired = FALSE]

\* C23: an event of a key with a tapping term of its own, of a tap dance key,
\* a combo event and an event that is no matrix key event make the dispatcher
\* return true and change nothing of the module's state (down_count, the
\* durations and timers, the status, the release cache, the tap-release set);
\* and so does, in every state, any key event that arrives while the module
\* is emitting (is_processing_record_due_to_pth).
GuardedEventsLeavePthUntouched ==
    /\ [][obs'.last = "guarded" => st'.ret /\ PthState(st') = PthState(st)]_vars
    /\ [](\A k \in keys \cup GuardKeys : \A pressed \in BOOLEAN :
             process_record_predictive_tap_hold(
                 SetProcessing(st, TRUE), RecordKeycode(st, k), Record(k, pressed, st.timer), 0)
                 = Ret(SetProcessing(st, TRUE), TRUE))

\* C23 happens: the mod-tap key T, which the host handles, was pressed while
\* the PTH key waits for its decision with a release in the cache, and the
\* module has counted one key down
GuardedEventsLeavePthUntouchedSeen ==
    /\ obs.last = "guarded"
    /\ "T" \in down
    /\ st.pth_status = PTH_PRESSED
    /\ st.used_release_records_bitmask # 0
    /\ st.down_count = 1

\* the rules of is_same_side_as_pth for the PTH key's atom and the other key's
SameSideRule(pth_atom, other_atom) ==
    IF other_atom = PTH_ATOM_OPPOSITE THEN FALSE
    ELSE IF other_atom = PTH_ATOM_SAME THEN TRUE
    ELSE IF pth_atom = PTH_ATOM_OPPOSITE THEN FALSE
    ELSE IF pth_atom = PTH_ATOM_SAME THEN TRUE
    ELSE pth_atom = other_atom

\* the four atoms
SideAtoms == {PTH_ATOM_LEFT, PTH_ATOM_RIGHT, PTH_ATOM_OPPOSITE, PTH_ATOM_SAME}

\* C24: for each of the 16 pairs of the PTH key's atom and the other key's
\* atom is_same_side_as_pth returns what the rules say (other Opposite: false;
\* other Same: true; PTH Opposite: false; PTH Same: true; else equality of
\* the atoms); the lookup constant has 16 bits and agrees with the rules at
\* every index; and the second key's side was resolved by them.
SameSideFollowsRules ==
    /\ \A pth_atom \in SideAtoms : \A other_atom \in SideAtoms :
           is_same_side_as_pth([st EXCEPT !.pth_atomic_side = pth_atom], other_atom)
               = SameSideRule(pth_atom, other_atom)
    /\ truth_table \in 0..(2 ^ 16 - 1)
    /\ \A index \in 0..15 : (Bit(truth_table, index) = 1) = SameSideRule(index \div 4, index % 4)
    /\ st.has_second =>
           st.second_is_same_side_as_pth =
               SameSideRule(PTH_GET_PTH_ATOM_SIDE(pth_get_side(st.pth_record.key)),
                            PTH_GET_OTHER_ATOM_SIDE(pth_get_side(st.second_record.key)))

\* C24 happens: the PTH key L (Right as PTH key) has the second key K (Left as
\* other key), resolved as not on the same side
SameSideFollowsRulesSeen ==
    /\ st.has_second
    /\ st.pth_record.key = "L"
    /\ st.second_record.key = "K"
    /\ st.pth_atomic_side = PTH_ATOM_RIGHT
    /\ ~st.second_is_same_side_as_pth

\* the step is the release of a key that passes the guards
MatrixRelease ==
    /\ nkeys' = nkeys + 1
    /\ (down \ down') \ GuardKeys # {}

\* C25: down_count is the number of keys that are physically down, the keys
\* the guards turn away not counted; a release that finds down_count 0 leaves
\* it 0 and records the overlap 0; and a release records an overlap other
\* than 0 only if down_count was 2 or more before it.  (A run that overflowed
\* the stack has no down_count to speak of.)
DownCountTracksKeyboard ==
    /\ [](~st.crashed => st.down_count = Cardinality(down \ GuardKeys))
    /\ [](st.down_count = 0 =>
             /\ collect_new_press_to_press_and_overlap_duration(st, FALSE, st.timer).down_count = 0
             /\ collect_new_press_to_press_and_overlap_duration(st, FALSE, st.timer).cur_overlap_dur = 0)
    /\ [][MatrixRelease /\ ~st'.crashed =>
              /\ st'.down_count = st.down_count - 1
              /\ st'.prev_overlap_dur = st.cur_overlap_dur
              /\ st'.cur_overlap_dur # 0 => st.down_count >= 2]_vars

\* C25 happens: with the key T down, which the host handles and the module
\* does not count, one of two counted keys was released and the overlap of
\* the two recorded
DownCountTracksKeyboardSeen ==
    /\ obs.last = "release"
    /\ "T" \in down
    /\ st.down_count = 1
    /\ Cardinality(down) = 2
    /\ st.cur_overlap_dur > 0

\* C26: without a second key, pth_get_second_keycode() is KC_NO
NoSecondNoKeycode ==
    ~st.has_second => st.second_keycode = KC_NO

\* what the Magic Layer Alt-Tab module did in the event just processed
AltTabDid(op) == \E i \in 1..Len(mlat.out) : mlat.out[i][1] = op

\* C27: the module registers Left Alt only while it processes the press of
\* LALT(KC_TAB) or LSA(KC_TAB) with the configured layer on
AltHeldOnlyAtAltTabPress ==
    AltTabDid("register_mods") =>
        /\ mlat.ev.pressed
        /\ mlat.ev.keycode \in {"LALT_TAB", "LSA_TAB"}
        /\ mlat.ev.layer_on

\* the step is a key event of the keyboard that runs Magic Layer Alt-Tab
AltTabStep == mlat' # mlat /\ mlat'.ev.key # "none"

\* how often the module did op in the event just processed
AltTabCount(a, op) == Cardinality({i \in 1..Len(a.out) : a.out[i][1] = op})

\* Left Alt is held by the module exactly while alt_tab_running is true, an
\* event registers it only if it was not held and unregisters it only if it
\* was, once, and after an event with the layer off it is not held
AltRegisteredOnce ==
    /\ [](mlat.alt_tab_running <=> "LALT" \in mlat.mods)
    /\ [](mlat.ev.key # "none" /\ ~IS_LAYER_ON(mlat, MAGIC_LAYER_ALT_TAB_LAYER)
             => ~mlat.alt_tab_running)
    /\ [][AltTabStep =>
              /\ AltTabCount(mlat', "register_mods") + AltTabCount(mlat', "unregister_mods") <= 1
              /\ AltTabCount(mlat', "register_mods") = 1 => ~mlat.alt_tab_running
              /\ AltTabCount(mlat', "unregister_mods") = 1 => mlat.alt_tab_running]_vars

PressOf(k) == nkeys' = nkeys + 1 /\ k \in down' \ down
ReleaseOf(k) == nkeys' = nkeys + 1 /\ k \in down \ down'

\* the step makes the decision d: the status was Idle (and the step is the
\* press of a tap-hold key), Pressed or SecondPressed, and is d after the
\* step, or Idle with d the status that the reset has recorded
DecisionStep(d) ==
    /\ ~st'.crashed
    /\ \/ st.pth_status \in {PTH_PRESSED, PTH_SECOND_PRESSED}
       \/ /\ st.pth_status = PTH_IDLE
          /\ \E k \in keys \ GuardKeys :
                 PressOf(k) /\ pth_is_tap_hold_keycode(Keymap(layer_switch_get_layer(st, k), k))
    /\ \/ st'.pth_status = d
       \/ st'.pth_status = PTH_IDLE /\ st'.pth_prev_status = d

\* the PTH key and the second key ("none" if there is none) of the decision
\* that the step makes
DecisionPth == obs'.pth
DecisionSecond ==
    IF st.has_second THEN st.second_record.key
    ELSE IF st'.has_second THEN st'.second_record.key
    ELSE IF st.pth_status = PTH_PRESSED /\ \E k \in keys : PressOf(k)
         THEN CHOOSE k \in keys : PressOf(k)
         ELSE "none"

\* the second key of the decision has been released by the typist
SecondIsUp ==
    /\ DecisionSecond # "none"
    /\ IF st.has_second
       THEN DecisionSecond \notin down \/ DecisionSecond \notin down'
       ELSE DecisionSecond \notin down'

\* the keys whose release is cached in partition when, when the step decides
CachedKeys(when) == {obs'.cached[i][1] : i \in {j \in 1..Len(obs'.cached) : obs'.cached[j][2] = when}}

\* what the step has written to the sink, the waits left out
StepEmitted == SelectSeq(StepOut, LAMBDA e : e.op # "wait")

\* entry e can be the c-th part of a tap decision: 1, 2 the tap of the
\* suppression key; 3, 4 the unregister-as-hold of the PTH and of the second
\* key; 5 the register-as-tap of the PTH; 6 a BeforeSecond release; 7 the
\* register of the second key; 8 an AfterSecond release; 9 the unregister of
\* the second key; 10 what the handler emits after the decision (the tap's
\* unregister at the PTH's release, the register of the key just pressed)
TapPart(e, c) ==
    CASE c = 1 -> e.op = "reg" /\ e.how = "code" /\ e.kc = PTH_INSTANT_MOD_TAP_SUPPRESSION_KEY
      [] c = 2 -> e.op = "unreg" /\ e.how = "code" /\ e.kc = PTH_INSTANT_MOD_TAP_SUPPRESSION_KEY
      [] c = 3 -> e.op = "unreg" /\ e.how = "hold" /\ e.pos = DecisionPth
      [] c = 4 -> /\ e.op = "unreg" /\ e.how = "hold" /\ e.pos = DecisionSecond
                  /\ pth_is_tap_hold_keycode(e.kc)
      [] c = 5 -> e.op = "reg" /\ e.how = "tap" /\ e.pos = DecisionPth
      [] c = 6 -> e.op = "unreg" /\ e.pos \in CachedKeys(BEFORE_SECOND)
      [] c = 7 -> /\ e.op = "reg" /\ e.pos = DecisionSecond
                  /\ pth_is_tap_hold_keycode(e.kc) => e.how = "tap"
      [] c = 8 -> e.op = "unreg" /\ e.pos \in CachedKeys(AFTER_SECOND)
      [] c = 9 -> /\ e.op = "unreg" /\ e.pos = DecisionSecond
                  /\ SecondIsUp
                  /\ pth_is_tap_hold_keycode(e.kc) => e.how = "tap"
      [] OTHER -> \/ ReleaseOf(DecisionPth) /\ e.op = "unreg" /\ e.how = "tap" /\ e.pos = DecisionPth
                  \/ /\ e.op = "reg" /\ e.pos # DecisionPth
                     /\ \E k \in keys : PressOf(k) /\ e.pos = k

\* the parts of a decision that can hold more than one entry
RepeatedParts == {6, 8}

\* the part that entry e is when the entry before it is part c (0 before the
\* first entry): the first part after c, or c itself for the releases, that
\* e can be; 0 if there is none
NextTapPart(e, c) ==
    LET next == {d \in 1..10 : /\ TapPart(e, d)
                               /\ d > c \/ (d = c /\ d \in RepeatedParts)}
    IN  IF next = {} THEN 0
        ELSE CHOOSE x \in next : \A y \in next : x <= y

\* the parts of the first i entries of seq, taken in order
RECURSIVE TapParts(_, _)
TapParts(seq, i) ==
    IF i = 0 THEN <<>>
    ELSE CHOOSE parts \in {Append(prev, NextTapPart(seq[i], IF prev = <<>> THEN 0
                                                            ELSE prev[Len(prev)])) :
                           prev \in {TapParts(seq, i - 1)}} : TRUE

\* how many entries of parts are part c
PartCount(parts, c) == Cardinality({i \in 1..Len(parts) : parts[i] = c})

TapOrderOf(parts) ==
    /\ PartCount(parts, 0) = 0
    /\ PartCount(parts, 1) = PartCount(parts, 2)
    /\ PartCount(parts, 3) = (IF st.pth_was_held_instantly THEN 1 ELSE 0)
    /\ PartCount(parts, 4) = (IF st.second_was_held_instantly THEN 1 ELSE 0)
    /\ PartCount(parts, 5) = 1
    /\ PartCount(parts, 6) = Cardinality(CachedKeys(BEFORE_SECOND))
    /\ IF DecisionSecond = "none"
       THEN \A c \in {4, 7, 8, 9} : PartCount(parts, c) = 0
       ELSE /\ PartCount(parts, 7) = 1
            /\ PartCount(parts, 8) = Cardinality(CachedKeys(AFTER_SECOND))
            /\ PartCount(parts, 9) = (IF SecondIsUp THEN 1 ELSE 0)

TraceOps(s) ==
    LET o == SelectSeq(s.out, LAMBDA e : e.op # "wait")
    IN  [i \in 1..Len(o) |-> <<o[i].op, o[i].how, o[i].pos>>]

SecondIsSameSide ==
    /\ DecisionSecond # "none"
    /\ st.pth_status # PTH_IDLE
    /\ is_record_same_side_as_pth(st, Record(DecisionSecond, TRUE, 0))

\* entry e can be the c-th part of a hold decision: 1 the hold register of
\* the PTH (its hold action or the replacement code); 2 a BeforeSecond
\* release; 3 the register of the second key, as hold if it is a same-side
\* tap-hold and as tap if it is another tap-hold; 4 an AfterSecond release;
\* 5 the unregister of the second key; 6 what the handler emits after the
\* decision (the register of the key just pressed, the unregister of the
\* hold at the PTH's release)
HoldPart(e, c) ==
    CASE c = 1 -> /\ e.op = "reg"
                  /\ \/ e.how = "hold" /\ e.pos = DecisionPth
                     \/ e.how = "code" /\ e.kc = st'.cfg.instead /\ e.kc # KC_NO
      [] c = 2 -> e.op = "unreg" /\ e.pos \in CachedKeys(BEFORE_SECOND)
      [] c = 3 -> /\ e.op = "reg" /\ e.pos = DecisionSecond
                  /\ pth_is_tap_hold_keycode(e.kc) =>
                         e.how = (IF SecondIsSameSide THEN "hold" ELSE "tap")
      [] c = 4 -> e.op = "unreg" /\ e.pos \in CachedKeys(AFTER_SECOND)
      [] c = 5 -> e.op = "unreg" /\ e.pos = DecisionSecond /\ SecondIsUp
      [] OTHER -> \/ /\ e.op = "reg" /\ e.pos # DecisionPth
                     /\ \E k \in keys : PressOf(k) /\ e.pos = k
                  \/ /\ ReleaseOf(DecisionPth) /\ e.op = "unreg"
                     /\ \/ e.how = "hold" /\ e.pos = DecisionPth
                        \/ e.how = "code" /\ e.kc = st'.cfg.instead /\ e.kc # KC_NO

NextHoldPart(e, c) ==
    LET next == {d \in 1..6 : /\ HoldPart(e, d)
                              /\ d > c \/ (d = c /\ d \in {2, 4})}
    IN  IF next = {} THEN 0
        ELSE CHOOSE x \in next : \A y \in next : x <= y

\* the parts of the first i entries of seq, taken in order
RECURSIVE HoldParts(_, _)
HoldParts(seq, i) ==
    IF i = 0 THEN <<>>
    ELSE CHOOSE parts \in {Append(prev, NextHoldPart(seq[i], IF prev = <<>> THEN 0
                                                             ELSE prev[Len(prev)])) :
                           prev \in {HoldParts(seq, i - 1)}} : TRUE

\* the second key, tap-hold and still down, was registered as tap by the
\* decision of the step: it is in the tap-release set after it (if a slot
\* was free)
SecondTapIsTracked(seq, parts) ==
    \A i \in 1..Len(seq) :
        parts[i] = 3 /\ pth_is_tap_hold_keycode(seq[i].kc) =>
            IF seq[i].how = "tap"
            THEN ~SecondIsUp => AddedToTapReleases(DecisionSecond)
            ELSE PressOf(DecisionSecond) \/ TapReleaseSlots(st', DecisionSecond) = {}

HoldOrderOf(seq, parts) ==
    /\ PartCount(parts, 0) = 0
    /\ PartCount(parts, 1) = (IF st.pth_was_held_instantly THEN 0 ELSE 1)
    /\ PartCount(parts, 2) = Cardinality(CachedKeys(BEFORE_SECOND))
    /\ IF DecisionSecond = "none"
       THEN \A c \in {3, 4, 5} : PartCount(parts, c) = 0
       ELSE /\ PartCount(parts, 3) = (IF st.second_was_held_instantly THEN 0 ELSE 1)
            /\ PartCount(parts, 4) = Cardinality(CachedKeys(AFTER_SECOND))
            /\ PartCount(parts, 5) = (IF SecondIsUp THEN 1 ELSE 0)
            /\ SecondTapIsTracked(seq, parts)

\* C30: a hold decision emits, in this order: the hold register of the PTH
\* (not if it was held instantly), the BeforeSecond releases, the register of
\* the second key (not if it was held instantly; as hold if it is a same-side
\* tap-hold, as tap with an entry in the tap-release set if it is another
\* tap-hold that is still down, plain otherwise), the AfterSecond releases,
\* and the unregister of the second key if it has been released.
CommitHoldOrder ==
    [][DecisionStep(PTH_DECIDED_HOLD) =>
           \A seq \in {StepEmitted} : \A parts \in {HoldParts(seq, Len(seq))} :
               HoldOrderOf(seq, parts)]_vars

\* ---------------------------------------------------------------------------
\* the guard wait of the hold decision

\* the index in the step's output of the first flushed BeforeSecond release
\* (0: the step flushes none)
FirstFlushedBeforeSecond ==
    LET idx == {i \in 1..Len(StepOut) :
                   /\ StepOut[i].op = "unreg"
                   /\ StepOut[i].pos \in CachedKeys(BEFORE_SECOND)}
    IN  IF idx = {} THEN 0 ELSE CHOOSE i \in idx : \A j \in idx : i <= j

\* send_and_wait has run just before the first flushed BeforeSecond release
WaitedBeforeFirstFlushed ==
    /\ FirstFlushedBeforeSecond > 1
    /\ StepOut[FirstFlushedBeforeSecond - 1].op = "wait"

\* C31: when a hold decision flushes at least one BeforeSecond release, the
\* guard wait (send_and_wait) is performed before the first flushed release
\* exactly when the hold of the PTH was registered in this decision, that is
\* when the PTH was not held instantly; it is not performed when the PTH has
\* been held instantly since its press.
GuardWaitWhenJustRegistered ==
    [][DecisionStep(PTH_DECIDED_HOLD) /\ FirstFlushedBeforeSecond > 0 =>
           (WaitedBeforeFirstFlushed <=> ~st.pth_was_held_instantly)]_vars

\* ---------------------------------------------------------------------------
\* the same-side roll

\* the step is the press of key k as second key, k on the PTH's side and not
\* a tap-hold key on the current layer
RollPressOf(k) ==
    /\ st.pth_status = PTH_PRESSED
    /\ k \notin GuardKeys
    /\ PressOf(k)
    /\ ~st'.crashed
    /\ is_record_same_side_as_pth(st, Record(k, TRUE, 0))
    /\ ~pth_is_tap_hold_keycode(Keymap(layer_switch_get_layer(st, k), k))

\* what the step has written to the sink, the waits and the provisional hold
\* of the PTH key left out, as <<op, how, position>> triples
StepTaps ==
    LET o == SelectSeq(StepEmitted,
                       LAMBDA e : ~(e.pos = st.pth_record.key /\ e.how = "hold"))
    IN  [i \in 1..Len(o) |-> <<o[i].op, o[i].how, o[i].pos>>]

\* in the step's output, the register-as-tap of the PTH key comes before the
\* register of key k
PthTapBeforeRegisterOf(k) ==
    \E i \in 1..Len(StepEmitted) : \E j \in (i + 1)..Len(StepEmitted) :
        /\ StepEmitted[i].op = "reg"
        /\ StepEmitted[i].pos = st.pth_record.key
        /\ StepEmitted[i].how = "tap"
        /\ StepEmitted[j].op = "reg"
        /\ StepEmitted[j].pos = k

\* tap has been decided for the PTH key K with the second key S
RolledTap ==
    /\ st.pth_status = PTH_DECIDED_TAP
    /\ st.pth_record.key = "K"
    /\ st.has_second
    /\ st.second_record.key = "S"

\* C32: under the default policies the press of a same-side second key that
\* is not a tap-hold decides tap within that press event (the status goes from
\* Pressed to DecidedTap; in a build that resets at once, to Idle with
\* DecidedTap recorded), and the register-as-tap of the PTH key is emitted
\* before the register of the second key.  For the input K down, S down, S up,
\* K up (nothing else down, no release cached) the taps come out in the order
\* tap(K) down, S down, S up, tap(K) up: the press of S emits tap(K) down and
\* S down, the release of S emits S up only, the release of K tap(K) up only.
SameSideRollIsTap ==
    /\ [][\A k \in keys : RollPressOf(k) =>
              /\ DecisionStep(PTH_DECIDED_TAP)
              /\ ~st.cfg.reset_immediately => st'.pth_status = PTH_DECIDED_TAP
              /\ PthTapBeforeRegisterOf(k)]_vars
    /\ [][RollPressOf("S") /\ st.pth_record.key = "K" /\ down = {"K"}
              /\ st.used_release_records_bitmask = 0 =>
              StepTaps = << <<"reg", "tap", "K">>, <<"reg", "hold", "S">> >>]_vars
    /\ [][RolledTap /\ down = {"K", "S"} /\ ReleaseOf("S") =>
              /\ StepTaps = << <<"unreg", "hold", "S">> >>
              /\ st'.pth_status = PTH_DECIDED_TAP]_vars
    /\ [][RolledTap /\ down = {"K"} /\ ReleaseOf("K") =>
              /\ StepTaps = << <<"unreg", "tap", "K">> >>
              /\ st'.pth_status = PTH_IDLE]_vars

\* C32 happens: K down (held instantly), S down, S up, K up have been typed
\* and the sink has the provisional hold and its undoing, then the taps in
\* the order of the typing
SameSideRollIsTapSeen ==
    /\ st.pth_status = PTH_IDLE
    /\ st.pth_prev_status = PTH_DECIDED_TAP
    /\ obs.pth = "K"
    /\ down = {}
    /\ nkeys = 4
    /\ TraceOps(st) = << <<"reg", "hold", "K">>, <<"unreg", "hold", "K">>,
                         <<"reg", "tap", "K">>, <<"reg", "hold", "S">>,
                         <<"unreg", "hold", "S">>, <<"unreg", "tap", "K">> >>

\* ---------------------------------------------------------------------------
\* the instant hold of the second key

\* the step is the press of key k as second key and no decision is made in it
SecondPressPending(k) ==
    /\ st.pth_status = PTH_PRESSED
    /\ k \notin GuardKeys
    /\ PressOf(k)
    /\ st'.pth_status = PTH_SECOND_PRESSED

\* k is a tap-hold key on the current layer and the second-instant-hold policy
\* returns true for it
SecondPolicyFires(k) ==
    /\ pth_is_tap_hold_keycode(Keymap(layer_switch_get_layer(st, k), k))
    /\ pth_second_should_hold_instantly(st, Keymap(layer_switch_get_layer(st, k), k))

\* the step has registered k as hold, provisionally
HeldInstantlyAsSecond(k) ==
    /\ st'.second_was_held_instantly
    /\ StepOps(k) = << <<"reg", "hold">> >>

\* C33 as stated: when the press of a second key does not commit tap, a second
\* key that is a tap-hold and for which the second-instant-hold policy returns
\* true is registered as hold during that press event, on the PTH's side or on
\* the opposite side.
SecondHeldInstantlyOnEitherSide ==
    [][\A k \in keys : SecondPressPending(k) /\ SecondPolicyFires(k) =>
           HeldInstantlyAsSecond(k)]_vars

\* C33 as the code has it: such a second key is registered as hold during
\* the press event if and only if it is on the PTH's side; the press of an
\* opposite-side second key emits nothing and leaves it not held.
SecondHeldInstantlyOnSameSide ==
    [][\A k \in keys : SecondPressPending(k) =>
           IF SecondPolicyFires(k) /\ is_record_same_side_as_pth(st, Record(k, TRUE, 0))
           THEN HeldInstantlyAsSecond(k)
           ELSE ~st'.second_was_held_instantly /\ StepOut = <<>>]_vars

\* C33 happens: the PTH key K has the same-side layer-tap L as second key,
\* held instantly at its press
SecondHeldInstantlyOnSameSideSeen ==
    /\ st.pth_status = PTH_SECOND_PRESSED
    /\ st.pth_record.key = "K"
    /\ st.second_record.key = "L"
    /\ st.second_is_same_side_as_pth
    /\ st.second_was_held_instantly
    /\ 1 \in st.layer_state
    /\ obs.last = "press"

\* ---------------------------------------------------------------------------
\* the minimum overlap for hold

\* the step is a run of the housekeeping task that decides hold for a PTH key
\* with a second key
OverlapRuleFires ==
    /\ nticks' = nticks + 1
    /\ st.pth_status = PTH_SECOND_PRESSED
    /\ st'.pth_status = PTH_DECIDED_HOLD

\* C34: while the status is SecondPressed, min_overlap_dur_for_hold is within
\* [PTH_MS_MIN_OVERLAP, PTH_MS_MAX_OVERLAP] = [39, 232] if the second key is a
\* tap-hold or is not on the PTH's side, whatever the overlap predictor has
\* returned, and 0 otherwise; it is 0 in Idle and in Pressed; so the overlap
\* rule of the housekeeping task fires only for a second key for which a
\* prediction was made.
MinOverlapClamped ==
    /\ [](st.pth_status = PTH_SECOND_PRESSED =>
              IF st.second_is_tap_hold \/ ~st.second_is_same_side_as_pth
              THEN st.min_overlap_dur_for_hold \in PTH_MS_MIN_OVERLAP..PTH_MS_MAX_OVERLAP
              ELSE st.min_overlap_dur_for_hold = 0)
    /\ [](st.pth_status \in {PTH_IDLE, PTH_PRESSED} => st.min_overlap_dur_for_hold = 0)
    /\ [][OverlapRuleFires =>
              /\ st.second_is_tap_hold \/ ~st.second_is_same_side_as_pth
              /\ st.min_overlap_dur_for_hold >= PTH_MS_MIN_OVERLAP]_vars

\* C34 happens: the predictor has returned more than PTH_MS_MAX_OVERLAP for
\* the tap-hold second key and min_overlap_dur_for_hold is PTH_MS_MAX_OVERLAP
MinOverlapClampedSeen ==
    /\ st.pth_status = PTH_SECOND_PRESSED
    /\ st.second_is_tap_hold
    /\ st.min_overlap_dur_for_hold = PTH_MS_MAX_OVERLAP
    /\ obs.last = "press"

\* ---------------------------------------------------------------------------
\* the neutralisation of modifiers

\* the places in seq where the suppression key is registered
SuppressionTaps(seq) ==
    {i \in 1..Len(seq) : /\ seq[i].op = "reg"
                         /\ seq[i].kc = PTH_INSTANT_MOD_TAP_SUPPRESSION_KEY}

\* the places in the step's output where the instant hold of the PTH key or
\* of the second key is unregistered
UndoneInstantHolds ==
    {i \in 1..Len(StepEmitted) : /\ StepEmitted[i].op = "unreg"
                                 /\ StepEmitted[i].how = "hold"
                                 /\ StepEmitted[i].pos \in {DecisionPth, DecisionSecond}}

\* those of a mod-tap whose modifiers the policy says to neutralise
UndoneInstantMods ==
    {i \in UndoneInstantHolds :
        /\ IS_QK_MOD_TAP(StepEmitted[i].kc)
        /\ pth_should_neutralize_mods(QK_MOD_TAP_GET_MODS(StepEmitted[i].kc))}

PendingFor(s) ==
    IF s.pth_status = PTH_PRESSED
    THEN TIMER_DIFF_16(s.timer, s.pth_press_timer)
    ELSE TIMER_DIFF_16(s.timer, s.second_press_timer)

\* C36: under the default policies and with a housekeeping tick per
\* millisecond, the status is Pressed only while less than 700 ms have passed
\* since the PTH press and SecondPressed only while less than 232 ms have
\* passed since the second key's press; while a decision is pending the tick
\* can run, and a tick that leaves the status as it is brings the deadline one
\* millisecond nearer: each of the two is left even if no further key event
\* arrives, and no decision stays pending forever.
PendingDecisionIsMade ==
    /\ [](st.pth_status = PTH_PRESSED => PendingFor(st) < DefaultTimeout)
    /\ [](st.pth_status = PTH_SECOND_PRESSED => PendingFor(st) < PTH_MS_MAX_OVERLAP)
    /\ [](st.pth_status \in {PTH_PRESSED, PTH_SECOND_PRESSED} => TickMsEnabled)
    /\ [][st.pth_status \in {PTH_PRESSED, PTH_SECOND_PRESSED} /\ st'.timer # st.timer =>
              \/ st'.pth_status \notin {PTH_PRESSED, PTH_SECOND_PRESSED}
              \/ st'.pth_status = st.pth_status /\ PendingFor(st') = PendingFor(st) + 1]_vars
    /\ (st.pth_status = PTH_PRESSED ~> st.pth_status # PTH_PRESSED)
    /\ (st.pth_status = PTH_SECOND_PRESSED ~> st.pth_status # PTH_SECOND_PRESSED)

\* C36 happens: K was pressed, 699 ms later X, and 231 ms after that the
\* decision is still pending; the next tick makes it
PendingDecisionIsMadeSeen ==
    /\ st.pth_status = PTH_SECOND_PRESSED
    /\ TIMER_DIFF_16(st.second_press_timer, st.pth_press_timer) = DefaultTimeout - 1
    /\ TIMER_DIFF_16(st.timer, st.second_press_timer) = PTH_MS_MAX_OVERLAP - 1
    /\ TickBy(st, 1).pth_status = PTH_DECIDED_HOLD

\* ---------------------------------------------------------------------------
\* a decision is final

\* the statuses of a decision made
DecidedStatuses == {PTH_DECIDED_TAP, PTH_DECIDED_HOLD}

\* C37: a decision is final.  From DecidedTap and from DecidedHold the only
\* change of the status is to Idle, so the one never becomes the other for the
\* same PTH press; a run of the housekeeping task leaves the status and the
\* sink's trace alone; and a later call of make_decision_tap or
\* make_decision_hold, whoever makes it, changes nothing and emits nothing.
DecisionIsFinal ==
    /\ [][st.pth_status \in DecidedStatuses /\ ~st'.crashed =>
              st'.pth_status \in {st.pth_status, PTH_IDLE}]_vars
    /\ [][st.pth_status \in DecidedStatuses /\ obs'.last = "tick" =>
              /\ st'.pth_status = st.pth_status
              /\ st'.out = st.out
              /\ st'.registered = st.registered
              /\ st'.layer_state = st.layer_state]_vars
    /\ [](st.pth_status \in DecidedStatuses =>
              /\ make_decision_tap(st, 0) = st
              /\ make_decision_hold(st, 0) = st)

\* C37 happens: tap was decided by a key event and the housekeeping task has
\* run since, the PTH key still down
DecisionIsFinalSeen ==
    /\ st.pth_status = PTH_DECIDED_TAP
    /\ st.pth_record.key \in down
    /\ obs.last = "tick"
    /\ st.out # <<>>

\* the tap-hold key whose press in Idle the step is
IdlePressedKey ==
    CHOOSE k \in down' \ down : pth_is_tap_hold_keycode(Keymap(layer_switch_get_layer(st, k), k))

\* C40: in a build with PTH_RESET_IMMEDIATELY_WHEN_TAP_CHOSEN, timeout 0 and
\* forced choice tap, the press of a tap-hold key in Idle ends in Idle with the
\* key's position in the tap-release set, the register-as-tap of the key is
\* all that is emitted (no register-as-hold) and pth_was_held_instantly is
\* false after the press.
ForcedTapPressResets ==
    [][IdlePthPress /\ st.cfg.reset_immediately /\ st.cfg.timeout = 0 /\ st.cfg.forced = "tap" =>
           /\ st'.pth_status = PTH_IDLE
           /\ TapReleaseSlots(st', IdlePressedKey) # {}
           /\ Len(StepOut) = 1
           /\ StepOut[1].op = "reg" /\ StepOut[1].how = "tap" /\ StepOut[1].pos = IdlePressedKey
           /\ ~st'.pth_was_held_instantly]_vars

\* every register in the trace of the sink is followed by an unregister of
\* the same position in the same way (as tap, as hold, as a code); an event
\* at EMPTY_KEYPOS that is not a tap_code16 addresses no key, the host
\* registers nothing for it
AllUnregistered(out) ==
    \A i \in 1..Len(out) :
        out[i].op = "reg" /\ (out[i].pos # EMPTY_KEYPOS \/ out[i].how = "code") =>
            \E j \in (i + 1)..Len(out) :
                out[j].op = "unreg" /\ out[j].pos = out[i].pos /\ out[j].how = out[i].how

\* C39: once every key has been released the keyboard is quiescent: the status
\* is Idle, the release cache and the tap-release set are empty, down_count is
\* 0, and all that was registered at the sink has been unregistered (no key,
\* no modifier and no layer is left on).
QuiescentWhenAllReleased ==
    down = {} =>
        /\ ~st.crashed
        /\ st.pth_status = PTH_IDLE
        /\ st.used_release_records_bitmask = 0
        /\ st.used_release_as_tap_positions_bitmask = 0
        /\ st.down_count = 0
        /\ st.registered = {}
        /\ st.layer_state = {0}
        /\ AllUnregistered(st.out)

\* C39 happens: all keys are up again after a hold decision with a cached
\* release (F1), a key that was down before the PTH key (F2) and a tap-hold
\* second key (H1) that was registered as tap while down, held in the
\* tap-release set and released before the PTH key
QuiescentWhenAllReleasedSeen ==
    /\ down = {}
    /\ nkeys = MaxKeyEvents
    /\ obs.pth = "K"
    /\ obs.last = "release"
    /\ st.pth_prev_status = PTH_DECIDED_HOLD
    /\ TraceOps(st) = <<(<<"reg", "hold", "K">>), (<<"unreg", "hold", "F1">>),
                        (<<"reg", "tap", "H1">>), (<<"unreg", "tap", "H1">>),
                        (<<"unreg", "hold", "F2">>), (<<"unreg", "hold", "K">>)>>

\* the sink has key k: it has a register of k that it has no unregister for,
\* or k is the PTH key and the code that replaces its hold is registered
AtSink(s, k) ==
    \/ s.sunk[k] # {}
    \/ /\ k = s.pth_record.key
       /\ s.pth_tap_code_instead_of_hold # KC_NO
       /\ s.pth_tap_code_instead_of_hold \in s.registered

\* a release of k is in the release cache
ReleaseIsCached(s, k) ==
    \E i \in 0..(RELEASE_RECORD_SIZE - 1) :
        Bit(s.used_release_records_bitmask, i) = 1 /\ s.release_records[i].key = k

\* C38: no event is lost or duplicated. The sink never gets an unregister of
\* a key before its register, a second unregister or a second register (a
\* provisional hold is unregistered before the key is registered as tap);
\* once a decision is made, and in Idle, the sink has exactly the keys that
\* are down: every press that was consumed has been registered and every
\* release that was consumed has been emitted; while a decision is pending the
\* only presses that the sink lacks are those of the PTH key and of the second
\* key, and the only releases it lacks are in the release cache or that of the
\* second key that is marked to be released.
NoEventLostOrDuplicated ==
    /\ ~st.unpaired
    /\ ~st.crashed
    /\ \A k \in Positions :
         IF st.pth_status \in {PTH_PRESSED, PTH_SECOND_PRESSED}
         THEN /\ (k \in down /\ ~AtSink(st, k)) =>
                   (\/ k = st.pth_record.key /\ ~st.pth_was_held_instantly
                    \/ k = st.second_record.key /\ st.has_second /\ ~st.second_was_held_instantly)
              /\ (k \notin down /\ AtSink(st, k)) =>
                   (\/ ReleaseIsCached(st, k)
                    \/ k = st.second_record.key /\ st.second_to_be_released)
         ELSE k \in down <=> AtSink(st, k)

====
